---- MODULE Spec2Model ----
(***************************************************************************)
(* Model of the astrogoblin-wordle server (server.js, its later revision   *)
(* with the word list and the asset routes) and of its guess evaluator.    *)
(*                                                                         *)
(* Strings are sequences of one-character strings, so that length,         *)
(* indexing, trimming and upper-casing are computed as the code computes   *)
(* them.  JavaScript's 0-based indices i are the 1-based indices i+1 here. *)
(***************************************************************************)
EXTENDS Integers, Sequences, FiniteSets, TLC

\* ------------------------------------------------------------------------
\* Characters and string helpers (String.prototype.toUpperCase, trim, the
\* regular expression /^[A-Z0-9\-]+$/)
\* ------------------------------------------------------------------------
LowerLetters ==
  <<"a","b","c","d","e","f","g","h","i","j","k","l","m",
    "n","o","p","q","r","s","t","u","v","w","x","y","z">>

UpperLetters ==
  <<"A","B","C","D","E","F","G","H","I","J","K","L","M",
    "N","O","P","Q","R","S","T","U","V","W","X","Y","Z">>

Digits == {"0","1","2","3","4","5","6","7","8","9"}

Whitespace == {" ", "\t", "\n"}

Range(s) == { s[i] : i \in DOMAIN s }

\* the character class [A-Z0-9\-]
AnswerCharset == Range(UpperLetters) \cup Digits \cup {"-"}

ToUpperChar(c) ==
  IF \E i \in DOMAIN LowerLetters : LowerLetters[i] = c
    THEN UpperLetters[CHOOSE i \in DOMAIN LowerLetters : LowerLetters[i] = c]
    ELSE c

\* String.prototype.toUpperCase on the characters of the model
toUpperCase(s) == [i \in DOMAIN s |-> ToUpperChar(s[i])]

RECURSIVE trimStart(_)
trimStart(s) ==
  IF s # <<>> /\ Head(s) \in Whitespace THEN trimStart(Tail(s)) ELSE s

RECURSIVE trimEnd(_)
trimEnd(s) ==
  IF s # <<>> /\ s[Len(s)] \in Whitespace
    THEN trimEnd(SubSeq(s, 1, Len(s) - 1))
    ELSE s

\* String.prototype.trim
trim(s) == trimEnd(trimStart(s))

\* /^[A-Z0-9\-]+$/.test(s)
MatchesAnswerCharset(s) ==
  /\ Len(s) >= 1
  /\ \A i \in DOMAIN s : s[i] \in AnswerCharset

\* Array.prototype.indexOf / String.prototype.indexOf for one element:
\* the first index holding x, 0 standing for JavaScript's -1
indexOf(arr, x) ==
  IF \E i \in DOMAIN arr : arr[i] = x
    THEN CHOOSE i \in DOMAIN arr :
           /\ arr[i] = x
           /\ \A j \in DOMAIN arr : arr[j] = x => i <= j
    ELSE 0

\* ------------------------------------------------------------------------
\* checkGuess(guess, answer): the two-pass evaluation
\* ------------------------------------------------------------------------
WordLen == 5

\* an array slot of `result` not yet assigned (new Array(5))
NoMark == [letter |-> "", status |-> "empty"]

\* remaining[i] = null
Null == "null"

Mark(c, st) == [letter |-> c, status |-> st]

\* Pass1Step without `remaining[i] = null`: an exact match stays claimable
Pass1StepKeepsRemaining(guessArr, answerArr, st, i) ==
  IF guessArr[i] = answerArr[i]
    THEN [result    |-> [st.result EXCEPT ![i] = Mark(guessArr[i], "correct")],
          remaining |-> st.remaining]
    ELSE st

\* body of the first loop for index i
Pass1Step(guessArr, answerArr, st, i) ==
  IF guessArr[i] = answerArr[i]
    THEN [result    |-> [st.result EXCEPT ![i] = Mark(guessArr[i], "correct")],
          remaining |-> [st.remaining EXCEPT ![i] = Null]]
    ELSE st

RECURSIVE Pass1(_, _, _, _)
Pass1(guessArr, answerArr, st, i) ==
  IF i > WordLen
    THEN st
    ELSE Pass1(guessArr, answerArr, Pass1Step(guessArr, answerArr, st, i), i + 1)

\* Pass2Step without `if (result[i]) continue`: pass 2 overwrites pass 1
Pass2StepNoSkip(guessArr, st, i) ==
  LET idx == indexOf(st.remaining, guessArr[i])
  IN IF idx # 0
       THEN [result    |-> [st.result EXCEPT ![i] = Mark(guessArr[i], "present")],
             remaining |-> [st.remaining EXCEPT ![idx] = Null]]
       ELSE [result    |-> [st.result EXCEPT ![i] = Mark(guessArr[i], "absent")],
             remaining |-> st.remaining]

\* Pass2Step without `remaining[idx] = null`: a letter is never used up
Pass2StepNoConsume(guessArr, st, i) ==
  IF st.result[i] # NoMark
    THEN st
    ELSE LET idx == indexOf(st.remaining, guessArr[i])
         IN IF idx # 0
              THEN [result    |-> [st.result EXCEPT ![i] = Mark(guessArr[i], "present")],
                    remaining |-> st.remaining]
              ELSE [result    |-> [st.result EXCEPT ![i] = Mark(guessArr[i], "absent")],
                    remaining |-> st.remaining]

\* body of the second loop for index i
Pass2Step(guessArr, st, i) ==
  IF st.result[i] # NoMark
    THEN st
    ELSE LET idx == indexOf(st.remaining, guessArr[i])
         IN IF idx # 0
              THEN [result    |-> [st.result EXCEPT ![i] = Mark(guessArr[i], "present")],
                    remaining |-> [st.remaining EXCEPT ![idx] = Null]]
              ELSE [result    |-> [st.result EXCEPT ![i] = Mark(guessArr[i], "absent")],
                    remaining |-> st.remaining]

RECURSIVE Pass2(_, _, _)
Pass2(guessArr, st, i) ==
  IF i > WordLen
    THEN st
    ELSE Pass2(guessArr, Pass2Step(guessArr, st, i), i + 1)

\* one left-to-right pass: exact matches are not claimed before presence
RECURSIVE SinglePass(_, _, _, _)
SinglePass(guessArr, answerArr, st, i) ==
  IF i > WordLen
    THEN st
    ELSE SinglePass(guessArr, answerArr,
                    Pass2Step(guessArr, Pass1Step(guessArr, answerArr, st, i), i),
                    i + 1)

checkGuessSinglePass(guess, answer) ==
  LET st0 == [result    |-> [i \in 1..WordLen |-> NoMark],
              remaining |-> answer]
  IN SinglePass(guess, answer, st0, 1).result

checkGuess(guess, answer) ==
  LET st0 == [result    |-> [i \in 1..WordLen |-> NoMark],
              remaining |-> answer]
  IN Pass2(guess, Pass1(guess, answer, st0, 1), 1).result

\* ------------------------------------------------------------------------
\* Strings compared and cut up as JavaScript does
\* ------------------------------------------------------------------------
\* the characters of keys and dates in ascending UTF-16 code unit order
\* ('-' is 45, '0'..'9' are 48..57)
CodeUnitOrder == <<"-", "0", "1", "2", "3", "4", "5", "6", "7", "8", "9">>

CodeUnit(c) == CHOOSE i \in DOMAIN CodeUnitOrder : CodeUnitOrder[i] = c

\* a < b on strings: the first differing code unit decides, a proper prefix
\* is smaller
RECURSIVE StrLess(_, _)
StrLess(a, b) ==
  IF b = <<>> THEN FALSE
  ELSE IF a = <<>> THEN TRUE
  ELSE IF Head(a) = Head(b) THEN StrLess(Tail(a), Tail(b))
  ELSE CodeUnit(Head(a)) < CodeUnit(Head(b))

\* a <= b on strings
StrLeq(a, b) == a = b \/ StrLess(a, b)

\* Array.prototype.sort() with the default comparison, on a set of strings
RECURSIVE SortStrings(_)
SortStrings(S) ==
  IF S = {} THEN <<>>
  ELSE LET m == CHOOSE x \in S : \A y \in S : StrLeq(x, y)
       IN <<m>> \o SortStrings(S \ {m})

\* s.substring(from) with a 0-based from
SubstringFrom(s, from) == SubSeq(s, from + 1, Len(s))

\* s.substring(0, to) with a 0-based exclusive to
SubstringTo(s, to) == SubSeq(s, 1, to)

\* s.split(sep) for a one-character separator
RECURSIVE Split(_, _)
Split(s, sep) ==
  LET idx == indexOf(s, sep)
  IN IF idx = 0
       THEN << s >>
       ELSE << SubSeq(s, 1, idx - 1) >> \o Split(SubSeq(s, idx + 1, Len(s)), sep)

\* ------------------------------------------------------------------------
\* loadPuzzles(): the catalog built from process.env
\* ------------------------------------------------------------------------
\* process.env restricted to the keys that start with PUZZLE_: a function
\* from the rest of the key (the text after PUZZLE_) to the value.

\* /^PUZZLE_\d{8}$/.test(k), on the text after PUZZLE_
KeyDigits == 8

IsPuzzleKey(k) == Len(k) = KeyDigits /\ \A i \in DOMAIN k : k[i] \in Digits

\* `${dateRaw.slice(0,4)}-${dateRaw.slice(4,6)}-${dateRaw.slice(6,8)}`
DateStr(dateRaw) ==
  SubSeq(dateRaw, 1, 4) \o <<"-">> \o SubSeq(dateRaw, 5, 6) \o <<"-">>
    \o SubSeq(dateRaw, 7, 8)

\* null where a string is expected (no string has an element of 4 characters)
NullStr == <<"null">>

\* x ? x : null for a string x (the empty string and undefined are falsy)
OrNull(x) == IF x = <<>> THEN NullStr ELSE x

\* sounds[i] for the 0-based i, <<>> standing for undefined
ElementOrEmpty(arr, i) == IF i + 1 \in DOMAIN arr THEN arr[i + 1] ELSE <<>>

\* the text after the first pipe kept whole as the clue, no sound parsed
ParseRestClueToEnd(rest) ==
  [clue |-> trim(rest), altWinSound |-> NullStr, altLoseSound |-> NullStr]

\* the clue and the two optional sounds parsed from the text after the
\* first pipe
ParseRest(rest) ==
  LET secondPipe == indexOf(rest, "|")
  IN IF secondPipe # 0
       THEN LET soundPart == trim(SubstringFrom(rest, secondPipe))
                parts     == Split(soundPart, ",")
                sounds    == [i \in DOMAIN parts |-> trim(parts[i])]
            IN [clue         |-> trim(SubstringTo(rest, secondPipe - 1)),
                altWinSound  |-> OrNull(ElementOrEmpty(sounds, 0)),
                altLoseSound |-> OrNull(ElementOrEmpty(sounds, 1))]
       ELSE [clue |-> trim(rest), altWinSound |-> NullStr, altLoseSound |-> NullStr]

\* the length check alone: the charset test is left out
AnswerAcceptedLengthOnly(answer) == Len(answer) = WordLen

\* answer.length !== 5 || !/^[A-Z0-9\-]+$/.test(answer)  (negated)
AnswerAccepted(answer) == Len(answer) = WordLen /\ MatchesAnswerCharset(answer)

\* a rejected entry ends the load with nothing kept, instead of `continue`
LoadEntryAbortOnReject(puzzleMap, key, value) ==
  LET dateRaw   == key
      dateStr   == DateStr(dateRaw)
      pipeIndex == indexOf(value, "|")
  IN IF pipeIndex = 0
       THEN <<>>
       ELSE LET answer == trim(toUpperCase(SubstringTo(value, pipeIndex - 1)))
                parsed == ParseRest(SubstringFrom(value, pipeIndex))
            IN IF ~AnswerAccepted(answer)
                 THEN <<>>
                 ELSE (dateStr :> [id           |-> dateRaw,
                                   answer       |-> answer,
                                   clue         |-> parsed.clue,
                                   date         |-> dateStr,
                                   altWinSound  |-> parsed.altWinSound,
                                   altLoseSound |-> parsed.altLoseSound])
                        @@ puzzleMap

\* one iteration of the loop over keys: puzzleMap after the entry key=value
LoadEntry(puzzleMap, key, value) ==
  LET dateRaw   == key
      dateStr   == DateStr(dateRaw)
      pipeIndex == indexOf(value, "|")
  IN IF pipeIndex = 0
       THEN puzzleMap
       ELSE LET answer == trim(toUpperCase(SubstringTo(value, pipeIndex - 1)))
                parsed == ParseRest(SubstringFrom(value, pipeIndex))
            IN IF ~AnswerAccepted(answer)
                 THEN puzzleMap
                 ELSE (dateStr :> [id           |-> dateRaw,
                                   answer       |-> answer,
                                   clue         |-> parsed.clue,
                                   date         |-> dateStr,
                                   altWinSound  |-> parsed.altWinSound,
                                   altLoseSound |-> parsed.altLoseSound])
                        @@ puzzleMap

RECURSIVE LoadLoop(_, _, _, _)
LoadLoop(e, keys, i, puzzleMap) ==
  IF i > Len(keys)
    THEN puzzleMap
    ELSE LoadLoop(e, keys, i + 1, LoadEntry(puzzleMap, keys[i], e[keys[i]]))

loadPuzzles(e) ==
  LET keys == SortStrings({ k \in DOMAIN e : IsPuzzleKey(k) })
  IN LoadLoop(e, keys, 1, <<>>)

\* ------------------------------------------------------------------------
\* loadValidWords(): the accepted-word set
\* ------------------------------------------------------------------------
\* /^[A-Z]+$/.test(word)
MatchesLetters(s) ==
  /\ Len(s) >= 1
  /\ \A i \in DOMAIN s : s[i] \in Range(UpperLetters)

\* the words kept from the lines of data/valid-words.txt
DictionaryWords(lines) ==
  { trim(toUpperCase(line)) : line \in
      { l \in lines : LET word == trim(toUpperCase(l))
                      IN Len(word) = WordLen /\ MatchesLetters(word) } }

\* data/valid-words.txt does not exist
NoFile == [exists |-> FALSE, lines |-> {}]

\* data/valid-words.txt with the given set of lines
FileOf(lines) == [exists |-> TRUE, lines |-> lines]

\* the words of the file only: the puzzle answers are not added
loadValidWordsFromFileOnly(file, puzzles) ==
  IF file.exists THEN DictionaryWords(file.lines) ELSE {}

loadValidWords(file, puzzles) ==
  (IF file.exists THEN DictionaryWords(file.lines) ELSE {})
    \cup { puzzles[d].answer : d \in DOMAIN puzzles }

\* ------------------------------------------------------------------------
\* State
\* ------------------------------------------------------------------------
VARIABLES
  evalGuess,    \* checkGuess: the guess argument
  evalAnswer,   \* checkGuess: the answer argument
  evalResult,   \* checkGuess: the returned array, <<>> before the call
  season,       \* next midnight: the window of instants, "none" when not in use
  serverZone,   \* next midnight: the time zone of the server process
  now,          \* next midnight: the instant of the call, in ms
  nextMidnight, \* next midnight: the returned instant, NoInstant before
  env,          \* process.env: the PUZZLE_ entries, text after PUZZLE_ -> value
  dictFile,     \* data/valid-words.txt: NoFile or FileOf(lines)
  booted,       \* the module's top level has run (app.listen was called)
  PUZZLES,      \* const PUZZLES: dateStr -> puzzle record
  VALID_WORDS,  \* const VALID_WORDS: Set of accepted guesses
  clock,        \* the current instant, as an index into Calendar
  imageCache,   \* const imageCache: Map puzzleId -> entry or NullEntry
  localImages,  \* files under public/images/answers: set of <<id, ext>>
  mirrorConfigured, \* GITHUB_ASSETS_TOKEN && GITHUB_ASSETS_REPO
  tasks,        \* the suspended asset handlers (awaiting a fetch)
  soundCache,   \* const soundCache: Map filename -> entry or NullEntry
  localSounds,  \* files under public/sounds: set of filenames
  skipLocalSounds, \* process.env.SKIP_LOCAL_SOUNDS is set
  mirror,       \* the files of the content mirror: [images, sounds]
  resolvedLocally, \* history: the <<kind, key>> resolved from the local store
  guessLog,     \* history: the guess requests answered and their replies
  currentGuess, \* client: the letters typed so far for the current row
  currentRow,   \* client: the row the player is on, from 0
  gameOver,     \* client: the current puzzle is finished
  isRevealing,  \* client: the animation lock
  currentPuzzle, \* client: currentPuzzle.puzzleId, NullStr before a puzzle is loaded
  gameState,    \* client: gameState, puzzleId -> [guesses, status]
  localStorage, \* client: the gameState written last by saveState
  fetches,      \* client: the POST /api/guess requests awaiting a response
  loads,        \* client: the GET /api/puzzle/:id requests awaiting a response
  timers,       \* client: the reveal callbacks waiting for their 300 ms
  sentLog,      \* history: puzzleId -> the requests whose responses were recorded
  resp          \* the response sent last, with the request it answers

evalVars == <<evalGuess, evalAnswer, evalResult>>

midnightVars == <<season, serverZone, now, nextMidnight>>

clientVars ==
  <<currentPuzzle, gameState, localStorage, currentGuess, currentRow, gameOver,
    isRevealing, fetches, loads, timers, sentLog>>

\* what the handlers leave alone: the variables of the functions checked on
\* their own, and the log of the guesses (written by GuessRequest only)
asideVars == <<evalVars, midnightVars, clientVars, guessLog>>

configVars ==
  <<env, dictFile, localImages, mirrorConfigured, localSounds,
    skipLocalSounds, mirror>>

catalogVars == <<booted, PUZZLES, VALID_WORDS>>

assetVars == <<imageCache, soundCache, tasks, resolvedLocally>>

serverVars == <<configVars, catalogVars, clock, assetVars, resp>>

vars == <<asideVars, serverVars>>

Min(a, b) == IF a <= b THEN a ELSE b

\* no response sent yet
NoResponse == [ep |-> "none"]

\* a content mirror that holds no file
NoMirror == [images |-> {}, sounds |-> {}]

\* a handler slot that holds no suspended handler
Idle == [kind |-> "idle"]

\* most asset handlers suspended at the same time
MaxInflight == 2

\* the server before it is started and with nothing configured
ServerOff ==
  /\ env = <<>>
  /\ dictFile = NoFile
  /\ booted = FALSE
  /\ PUZZLES = <<>>
  /\ VALID_WORDS = {}
  /\ clock = 1
  /\ imageCache = <<>>
  /\ localImages = {}
  /\ mirrorConfigured = FALSE
  /\ tasks = [n \in 1..MaxInflight |-> Idle]
  /\ soundCache = <<>>
  /\ localSounds = {}
  /\ skipLocalSounds = FALSE
  /\ mirror = NoMirror
  /\ resolvedLocally = {}
  /\ resp = NoResponse

\* the evaluator not in use
EvalOff ==
  /\ evalGuess = <<>>
  /\ evalAnswer = <<>>
  /\ evalResult = <<>>

\* where an instant is expected and there is none (instants are not negative)
NoInstant == 0 - 1

\* getNextMidnightEasternUTC not in use
MidnightOff ==
  /\ season = "none"
  /\ serverZone = "UTC"
  /\ now = NoInstant
  /\ nextMidnight = NoInstant

\* the guesses are not logged
NoLog == [on |-> FALSE, seen |-> <<>>]

\* the log of the guesses, empty
EmptyLog == [on |-> TRUE, seen |-> <<>>]

\* most times one guess request is counted in the log
MaxRepeats == 2

\* the log after the request `key` was answered with `reply`: the first
\* reply to a request is kept, with the number of times it was made
Logged(log, key, reply) ==
  IF ~log.on THEN log
  ELSE IF key \in DOMAIN log.seen
    THEN [log EXCEPT !.seen[key].times = Min(@ + 1, MaxRepeats)]
  ELSE [log EXCEPT !.seen = (key :> [reply |-> reply, times |-> 1]) @@ log.seen]

\* the page before init() has run: no puzzle loaded, nothing saved
ClientFresh ==
  /\ currentPuzzle = NullStr
  /\ gameState = <<>>
  /\ localStorage = <<>>
  /\ currentGuess = <<>>
  /\ currentRow = 0
  /\ gameOver = FALSE
  /\ isRevealing = FALSE
  /\ fetches = <<>>
  /\ loads = <<>>
  /\ timers = <<>>
  /\ sentLog = <<>>

\* no function is checked on its own, no guess is logged, nobody plays
AsideOff == EvalOff /\ MidnightOff /\ guessLog = NoLog /\ ClientFresh

\* ------------------------------------------------------------------------
\* AvailabilityClock: getEasternDateString()
\* ------------------------------------------------------------------------
\* consecutive Eastern calendar days, as YYYYMMDD; the clock is an index
CalendarDays ==
  << <<"2","0","2","4","0","2","2","8">>,
     <<"2","0","2","4","0","2","2","9">>,
     <<"2","0","2","4","0","3","0","1">>,
     <<"2","0","2","4","0","3","0","2">>,
     <<"2","0","2","4","0","3","0","3">>,
     <<"2","0","2","4","0","3","0","4">> >>

\* the last calendar day the clock reaches
MaxDay == 4

\* the Eastern date read once, when the process starts, and kept
getEasternDateStringAtStart == DateStr(CalendarDays[1])

\* new Date().toLocaleDateString('en-CA', {timeZone: 'America/New_York'}):
\* the Eastern date of the current instant as YYYY-MM-DD
getEasternDateString == DateStr(CalendarDays[clock])

\* ------------------------------------------------------------------------
\* AvailabilityClock: getNextMidnightEasternUTC()
\* ------------------------------------------------------------------------
\* instants and wall-clock times are counted in milliseconds
Second == 1000

Minute == 60 * Second

Hour == 60 * Minute

Day == 24 * Hour

\* the two windows of instants: each starts at 00:00 UTC of the day before
\* America/New_York changes its offset (2024-03-09 and 2024-11-02)
Seasons == {"spring", "autumn"}

UTC == "UTC"

NewYork == "America/New_York"

\* the instant of the change: 2024-03-10 02:00 EST is 07:00 UTC,
\* 2024-11-03 02:00 EDT is 06:00 UTC
Transition(s) == IF s = "spring" THEN Day + 7 * Hour ELSE Day + 6 * Hour

\* America/New_York before and after the change: EST is UTC-5, EDT is UTC-4
OffsetBefore(s) == IF s = "spring" THEN 0 - 5 * Hour ELSE 0 - 4 * Hour

OffsetAfter(s) == IF s = "spring" THEN 0 - 4 * Hour ELSE 0 - 5 * Hour

\* the offset from UTC of the zone at the instant t
UtcOffset(zone, s, t) ==
  IF zone = UTC THEN 0
  ELSE IF t < Transition(s) THEN OffsetBefore(s) ELSE OffsetAfter(s)

\* the wall clock of the zone at the instant t, in ms on the zone's own line
WallClock(zone, s, t) == t + UtcOffset(zone, s, t)

\* the instant at which the wall clock of the zone shows w: of a repeated
\* time the first, of a skipped time the one the earlier offset gives
LocalToInstant(zone, s, w) ==
  IF zone = UTC THEN w
  ELSE IF w - OffsetBefore(s) < Transition(s) THEN w - OffsetBefore(s)
  ELSE IF w - OffsetAfter(s) >= Transition(s) THEN w - OffsetAfter(s)
  ELSE w - OffsetBefore(s)

\* now.toLocaleString('en-US', { timeZone: 'America/New_York' }): the Eastern
\* wall clock to the second
toLocaleString(s, t) ==
  LET w == WallClock(NewYork, s, t) IN w - (w % Second)

\* new Date(string): the string is read as a time of the server's own zone
ParseLocal(zone, s, w) == LocalToInstant(zone, s, w)

\* date.setHours(24, 0, 0, 0): midnight after the date's day, in the server's
\* own zone
setHours24(zone, s, t) ==
  LET w == WallClock(zone, s, t)
  IN LocalToInstant(zone, s, (w \div Day) * Day + Day)

\* getNextMidnightEasternUTC() called at the instant t by a server process
\* whose zone is `zone`
getNextMidnightEasternUTCAt(zone, s, t) ==
  LET easternStr == toLocaleString(s, t)
      easternNow == ParseLocal(zone, s, easternStr)
      nextMidnightEastern == setHours24(zone, s, easternNow)
      offsetMs == t - easternNow
  IN nextMidnightEastern + offsetMs

\* ------------------------------------------------------------------------
\* JSON values of a request body
\* ------------------------------------------------------------------------
JString(s) == [t |-> "string", v |-> s]

JNumber(n) == [t |-> "number", v |-> <<n>>]

JArray(a) == [t |-> "array", v |-> a]

JObject == [t |-> "object", v |-> <<>>]

JNull == [t |-> "null", v |-> <<>>]

\* the field is missing from the body
JUndefined == [t |-> "undefined", v |-> <<>>]

\* ToBoolean(x), as in `!x`
Truthy(x) ==
  CASE x.t = "string" -> x.v # <<>>
    [] x.t = "number" -> x.v # <<0>>
    [] x.t \in {"array", "object"} -> TRUE
    [] OTHER -> FALSE

\* ------------------------------------------------------------------------
\* Request handlers
\* ------------------------------------------------------------------------
\* Object.values(PUZZLES).find(p => p.id === id) is undefined
NoPuzzle == [id |-> NullStr]

\* Object.values(PUZZLES).find(p => p.id === id), id a JSON value:
\* === holds only for a string equal to the id
FindPuzzle(id) ==
  IF id.t = "string" /\ \E d \in DOMAIN PUZZLES : PUZZLES[d].id = id.v
    THEN PUZZLES[CHOOSE d \in DOMAIN PUZZLES : PUZZLES[d].id = id.v]
    ELSE NoPuzzle

\* puzzle.date >= today: the puzzle of the current day is refused too
NotYetAvailableInclusive(puzzle, today) == StrLeq(today, puzzle.date)

\* puzzle.date > today
NotYetAvailable(puzzle, today) == StrLess(today, puzzle.date)

\* res.status(code).json({ error })
ErrorReply(code, message) == [status |-> code, error |-> message]

\* an exception escaping a handler: Express answers 500 and, outside
\* production mode, sends the stack trace
Thrown(what) == [status |-> 500, error |-> what, stack |-> TRUE]

\* the guess handler with the puzzle looked up before the guess is validated
GuessReplyLookupFirst(puzzleId, upperGuess, today) ==
  LET puzzle == FindPuzzle(puzzleId)
  IN IF puzzle = NoPuzzle
       THEN ErrorReply(404, "Puzzle not found")
     ELSE IF StrLess(today, puzzle.date)
       THEN ErrorReply(403, "This puzzle is not available yet")
     ELSE IF Len(upperGuess) # WordLen \/ ~MatchesAnswerCharset(upperGuess)
       THEN ErrorReply(400, "Guess must be 5 characters (A-Z, 0-9, -)")
     ELSE IF upperGuess \notin VALID_WORDS
       THEN ErrorReply(422, "Not in word list")
     ELSE [status  |-> 200,
           result  |-> checkGuess(upperGuess, puzzle.answer),
           correct |-> upperGuess = puzzle.answer]

\* the guess handler from `const upperGuess` on, for a string guess
GuessReplyValidated(puzzleId, upperGuess, today) ==
  IF Len(upperGuess) # WordLen \/ ~MatchesAnswerCharset(upperGuess)
    THEN ErrorReply(400, "Guess must be 5 characters (A-Z, 0-9, -)")
  ELSE IF upperGuess \notin VALID_WORDS
    THEN ErrorReply(422, "Not in word list")
  ELSE LET puzzle == FindPuzzle(puzzleId)
       IN IF puzzle = NoPuzzle
            THEN ErrorReply(404, "Puzzle not found")
          ELSE IF NotYetAvailable(puzzle, today)
            THEN ErrorReply(403, "This puzzle is not available yet")
          ELSE [status  |-> 200,
                result  |-> checkGuess(upperGuess, puzzle.answer),
                correct |-> upperGuess = puzzle.answer]

\* the guess handler refusing to work while an asset handler is suspended
GuessReplyWhenIdle(puzzleId, guess, today) ==
  IF \E n \in DOMAIN tasks : tasks[n] # Idle
    THEN ErrorReply(503, "Busy")
  ELSE IF ~Truthy(puzzleId) \/ ~Truthy(guess)
    THEN ErrorReply(400, "Missing puzzleId or guess")
  ELSE IF guess.t # "string"
    THEN Thrown("TypeError: guess.toUpperCase is not a function")
  ELSE GuessReplyValidated(puzzleId, trim(toUpperCase(guess.v)), today)

\* POST /api/guess with body { puzzleId, guess }
GuessReply(puzzleId, guess, today) ==
  IF ~Truthy(puzzleId) \/ ~Truthy(guess)
    THEN ErrorReply(400, "Missing puzzleId or guess")
  ELSE IF guess.t # "string"
    THEN Thrown("TypeError: guess.toUpperCase is not a function")
  ELSE GuessReplyValidated(puzzleId, trim(toUpperCase(guess.v)), today)

\* the rank among the dates available now only
getPuzzleNumberForDateAmongAvailable(dateStr) ==
  indexOf(SortStrings({ d \in DOMAIN PUZZLES : StrLeq(d, getEasternDateString) }),
          dateStr)

\* getPuzzleNumberForDate(dateStr)
getPuzzleNumberForDate(dateStr) ==
  indexOf(SortStrings(DOMAIN PUZZLES), dateStr)

\* the dates before `today` only: the puzzle of the day is left out
getAvailablePuzzleDatesStrict(today) ==
  SortStrings({ d \in DOMAIN PUZZLES : StrLess(d, today) })

\* getAvailablePuzzleDates(), its getEasternDateString() returning `today`
getAvailablePuzzleDates(today) ==
  SortStrings({ d \in DOMAIN PUZZLES : StrLeq(d, today) })

\* getTotalPuzzleCount()
getTotalPuzzleCount == Cardinality(DOMAIN PUZZLES)

\* getNextMidnightEasternUTC(), called on the Eastern day `today`: the
\* instant at which that day ends
getNextMidnightEasternUTC(today) == [endOf |-> today]

\* null where an instant is expected
NullTime == [endOf |-> NullStr]

\* today < lastPuzzleDate, lastPuzzleDate the last of the sorted catalog dates
\* (undefined for an empty catalog: the comparison is then false)
HasMorePuzzles(today) ==
  LET allDates == SortStrings(DOMAIN PUZZLES)
  IN Len(allDates) > 0 /\ StrLess(today, allDates[Len(allDates)])

\* GET /api/today; the handler reads the clock three times: `today`, then
\* inside getAvailablePuzzleDates, then inside getNextMidnightEasternUTC
TodayReply(today, today2, today3) ==
  LET available == getAvailablePuzzleDates(today2)
  IN IF Len(available) = 0
       THEN [status         |-> 200,
             active         |-> FALSE,
             message        |-> "No puzzles available yet. Check back soon!",
             nextPuzzleTime |-> getNextMidnightEasternUTC(today3),
             totalAvailable |-> 0,
             totalPuzzles   |-> getTotalPuzzleCount]
       ELSE LET todayDate == IF indexOf(available, today) # 0
                               THEN today
                               ELSE available[Len(available)]
                puzzle == PUZZLES[todayDate]
                hasMorePuzzles == HasMorePuzzles(today)
            IN [status         |-> 200,
                active         |-> TRUE,
                puzzleNumber   |-> getPuzzleNumberForDate(todayDate),
                puzzleId       |-> puzzle.id,
                clue           |-> puzzle.clue,
                date           |-> puzzle.date,
                totalAvailable |-> Len(available),
                totalPuzzles   |-> getTotalPuzzleCount,
                nextPuzzleTime |-> IF hasMorePuzzles
                                     THEN getNextMidnightEasternUTC(today3)
                                     ELSE NullTime,
                hasMorePuzzles |-> hasMorePuzzles,
                altWinSound    |-> puzzle.altWinSound,
                altLoseSound   |-> puzzle.altLoseSound]

\* the element of the list made of the whole puzzle record
ListItemWholeRecord(dateStr) ==
  LET p == PUZZLES[dateStr]
  IN [puzzleNumber |-> getPuzzleNumberForDate(dateStr),
      puzzleId     |-> p.id,
      answer       |-> p.answer,
      clue         |-> p.clue,
      date         |-> p.date,
      altWinSound  |-> p.altWinSound,
      altLoseSound |-> p.altLoseSound]

\* one element of the list of GET /api/puzzles/list
ListItem(dateStr) ==
  LET p == PUZZLES[dateStr]
  IN [puzzleNumber |-> getPuzzleNumberForDate(dateStr),
      puzzleId     |-> p.id,
      clue         |-> p.clue,
      date         |-> p.date,
      altWinSound  |-> p.altWinSound,
      altLoseSound |-> p.altLoseSound]

\* GET /api/puzzles/list; the clock is read inside getAvailablePuzzleDates,
\* then for `today`, then inside getNextMidnightEasternUTC
ListReply(today1, today, today3) ==
  LET available == getAvailablePuzzleDates(today1)
      hasMorePuzzles == HasMorePuzzles(today)
  IN [status         |-> 200,
      puzzles        |-> [i \in DOMAIN available |-> ListItem(available[i])],
      totalPuzzles   |-> getTotalPuzzleCount,
      nextPuzzleTime |-> IF hasMorePuzzles
                           THEN getNextMidnightEasternUTC(today3)
                           ELSE NullTime,
      hasMorePuzzles |-> hasMorePuzzles]

\* GET /api/puzzle/:puzzleId
PuzzleReply(id, today) ==
  LET puzzle == FindPuzzle(JString(id))
  IN IF puzzle = NoPuzzle
       THEN ErrorReply(404, "Puzzle not found")
     ELSE IF NotYetAvailable(puzzle, today)
       THEN ErrorReply(403, "This puzzle is not available yet")
     ELSE [status       |-> 200,
           puzzleNumber |-> getPuzzleNumberForDate(puzzle.date),
           puzzleId     |-> puzzle.id,
           clue         |-> puzzle.clue,
           date         |-> puzzle.date,
           altWinSound  |-> puzzle.altWinSound,
           altLoseSound |-> puzzle.altLoseSound]

\* POST /api/reveal with body { puzzleId }
RevealReply(puzzleId) ==
  LET puzzle == FindPuzzle(puzzleId)
  IN IF puzzle = NoPuzzle
       THEN ErrorReply(404, "Puzzle not found")
       ELSE [status |-> 200, answer |-> puzzle.answer]

\* GET /api/answer-image/:puzzleId
\* the candidates the other way round
extensionsReversed == <<"webp", "gif", "jpg", "png">>

extensions == <<"png", "jpg", "gif", "webp">>

mimeTypes ==
  [png |-> "image/png", jpg |-> "image/jpeg", gif |-> "image/gif",
   webp |-> "image/webp"]

\* imageCache.set(id, null)
NullEntry == [contentType |-> "null"]

\* { buffer, contentType } for the file id.ext read from `source`
ImageEntry(source, id, ext) ==
  [buffer      |-> [source |-> source, id |-> id, ext |-> ext],
   contentType |-> mimeTypes[ext]]

\* the response serving a cache entry (or 404 for a cached miss)
ServeEntry(entry, missing) ==
  IF entry = NullEntry
    THEN ErrorReply(404, missing)
    ELSE [status |-> 200, contentType |-> entry.contentType,
          buffer |-> entry.buffer]

\* the cache lookup left out: every request resolves anew
CacheSkipped(cache, key) == FALSE

\* cache.get(key) is truthy: a memoized miss is not taken as a cache hit
CacheHasTruthy(cache, key) == key \in DOMAIN cache /\ cache[key] # NullEntry

\* imageCache.has(id), soundCache.has(filename)
CacheHas(cache, key) == key \in DOMAIN cache

\* 0-based-order positions of the extensions whose local file exists
LocalHits(id) == { i \in DOMAIN extensions : <<id, extensions[i]>> \in localImages }

FirstOf(S) == CHOOSE i \in S : \A j \in S : i <= j

\* GET /api/sounds/:filename
ToLowerChar(c) ==
  IF \E i \in 1..26 : UpperLetters[i] = c
    THEN LowerLetters[CHOOSE i \in 1..26 : UpperLetters[i] = c]
    ELSE c

toLowerCase(s) == [i \in DOMAIN s |-> ToLowerChar(s[i])]

\* \w
WordChars == Range(LowerLetters) \cup Range(UpperLetters) \cup Digits \cup {"_"}

MP3 == <<"m","p","3">>

WAV == <<"w","a","v">>

OGG == <<"o","g","g">>

\* the extension test alone: the name before the dot is not examined
SafeFilenameExtensionOnly(filename) ==
  \E d \in DOMAIN filename :
    /\ filename[d] = "."
    /\ toLowerCase(SubSeq(filename, d + 1, Len(filename))) \in {MP3, WAV, OGG}

\* /^[\w\-]+\.(mp3|wav|ogg)$/i.test(filename)
SafeFilename(filename) ==
  LET dot == indexOf(filename, ".")
  IN /\ dot > 1
     /\ \A i \in 1..(dot - 1) : filename[i] \in WordChars \cup {"-"}
     /\ toLowerCase(SubSeq(filename, dot + 1, Len(filename))) \in {MP3, WAV, OGG}

\* filename.split('.').pop().toLowerCase()
SoundExt(filename) ==
  LET parts == Split(filename, ".")
  IN toLowerCase(parts[Len(parts)])

\* mimeTypes[ext] || 'application/octet-stream'
SoundContentType(ext) ==
  CASE ext = MP3 -> "audio/mpeg"
    [] ext = WAV -> "audio/wav"
    [] ext = OGG -> "audio/ogg"
    [] OTHER -> "application/octet-stream"

\* { buffer, contentType } for the sound file read from `source`
SoundEntry(source, filename) ==
  [buffer      |-> [source |-> source, id |-> filename],
   contentType |-> SoundContentType(SoundExt(filename))]

\* the remote file a suspended handler is fetching is on the mirror
MirrorHas(task) ==
  IF task.kind = "image"
    THEN <<task.id, extensions[task.ext]>> \in mirror.images
    ELSE task.id \in mirror.sounds

\* how `await fetch(url)` can settle: ghRes.ok only for a file of the mirror;
\* a non-success response or a rejection (transport error) at any time
FetchOutcomes(task) ==
  {"notok", "error"} \cup (IF MirrorHas(task) THEN {"ok"} ELSE {})

\* how `await ghRes.arrayBuffer()` can settle
BodyOutcomes == {"ok", "error"}

FreeSlots == { n \in DOMAIN tasks : tasks[n] = Idle }

\* res.json / res.send: the response, with the request and the Eastern date
\* at which the handler ran
Send(ep, req, reply) ==
  resp' = [ep |-> ep, req |-> req, at |-> getEasternDateString, reply |-> reply]

\* ------------------------------------------------------------------------
\* Actions
\* ------------------------------------------------------------------------
\* the module's top level: PUZZLES, VALID_WORDS, then app.listen
Boot ==
  /\ ~booted
  /\ booted' = TRUE
  /\ PUZZLES' = loadPuzzles(env)
  /\ VALID_WORDS' = loadValidWords(dictFile, loadPuzzles(env))
  /\ UNCHANGED <<asideVars, configVars, clock, assetVars, resp>>

\* the server is started and the response sent last has left: the event loop
\* runs one handler step at a time, and `resp` holds what that step sent
Listening == booted /\ resp = NoResponse

\* the response sent last has reached the client
Deliver ==
  /\ resp # NoResponse
  /\ resp' = NoResponse
  /\ UNCHANGED <<asideVars, configVars, catalogVars, clock, assetVars>>

\* Eastern midnight passes
Tick ==
  /\ booted
  /\ clock < MaxDay
  /\ clock' = clock + 1
  /\ UNCHANGED <<asideVars, configVars, catalogVars, assetVars, resp>>

GuessRequest(puzzleIds, guesses) ==
  /\ Listening
  /\ \E puzzleId \in puzzleIds, guess \in guesses :
       LET reply == GuessReply(puzzleId, guess, getEasternDateString)
       IN /\ Send("guess", [puzzleId |-> puzzleId, guess |-> guess], reply)
          /\ guessLog' = Logged(guessLog,
                                <<puzzleId, guess, getEasternDateString>>, reply)
  /\ UNCHANGED <<evalVars, midnightVars, clientVars, configVars, catalogVars,
                 clock, assetVars>>

\* the puzzle handler memoizing "no image" for the id it is asked about
PuzzleRequestMemoizing(ids) ==
  /\ Listening
  /\ \E id \in ids :
       /\ Send("puzzle", [puzzleId |-> JString(id)],
               PuzzleReply(id, getEasternDateString))
       /\ imageCache' = (id :> NullEntry) @@ imageCache
  /\ UNCHANGED <<asideVars, configVars, catalogVars, clock, soundCache, tasks,
                 resolvedLocally>>

PuzzleRequest(ids) ==
  /\ Listening
  /\ \E id \in ids :
       Send("puzzle", [puzzleId |-> JString(id)],
            PuzzleReply(id, getEasternDateString))
  /\ UNCHANGED <<asideVars, configVars, catalogVars, clock, assetVars>>

RevealRequest(puzzleIds) ==
  /\ Listening
  /\ \E puzzleId \in puzzleIds :
       Send("reveal", [puzzleId |-> puzzleId], RevealReply(puzzleId))
  /\ UNCHANGED <<asideVars, configVars, catalogVars, clock, assetVars>>

\* ------------------------------------------------------------------------
\* The middleware in front of the API routes: the two blocks and
\* express.static. Express matches a mount path against the pathname as it
\* was sent (not decoded), ignoring case, up to a segment boundary;
\* express.static decodes the pathname, then normalizes it, then looks the
\* file up under public/.
\* ------------------------------------------------------------------------
\* app.use(mount, ...): the layer handles the pathname
MountMatches(mount, pathname) ==
  /\ Len(pathname) >= Len(mount)
  /\ toLowerCase(SubSeq(pathname, 1, Len(mount))) = mount
  /\ (Len(pathname) = Len(mount) \/ pathname[Len(mount) + 1] = "/")

ImagesAnswersMount == <<"/","i","m","a","g","e","s","/","a","n","s","w","e","r","s">>

SoundsMount == <<"/","s","o","u","n","d","s">>

\* the character of a percent escape, for the escapes of the requests made
PercentEscapes ==
  (<<"6","1">> :> "a") @@ (<<"2","F">> :> "/") @@ (<<"2","f">> :> "/")
    @@ (<<"2","E">> :> ".")

\* decodeURIComponent(pathname); <<"%">> stands for the URIError thrown for
\* a malformed escape
RECURSIVE decodeURIComponent(_)
decodeURIComponent(t) ==
  IF t = <<>> THEN <<>>
  ELSE IF t[1] # "%"
    THEN LET rest == decodeURIComponent(Tail(t))
         IN IF rest = <<"%">> THEN rest ELSE <<t[1]>> \o rest
  ELSE IF Len(t) >= 3 /\ SubSeq(t, 2, 3) \in DOMAIN PercentEscapes
    THEN LET rest == decodeURIComponent(SubSeq(t, 4, Len(t)))
         IN IF rest = <<"%">>
              THEN rest
              ELSE <<PercentEscapes[SubSeq(t, 2, 3)]>> \o rest
  ELSE <<"%">>

Dot == <<".">>

DotDot == <<".", ".">>

\* path.normalize on the segments of a relative path: empty and "."
\* segments dropped, ".." taking back the segment before it
RECURSIVE normalize(_, _)
normalize(segments, done) ==
  IF segments = <<>> THEN done
  ELSE LET seg == Head(segments)
       IN IF seg = <<>> \/ seg = Dot
            THEN normalize(Tail(segments), done)
          ELSE IF seg = DotDot /\ done # <<>> /\ done[Len(done)] # DotDot
            THEN normalize(Tail(segments), SubSeq(done, 1, Len(done) - 1))
          ELSE normalize(Tail(segments), Append(done, seg))

ExtChars ==
  [png |-> <<"p","n","g">>, jpg |-> <<"j","p","g">>, gif |-> <<"g","i","f">>,
   webp |-> <<"w","e","b","p">>]

ImagesDir == <<"i","m","a","g","e","s">>

AnswersDir == <<"a","n","s","w","e","r","s">>

SoundsDir == <<"s","o","u","n","d","s">>

IndexHtml == << <<"i","n","d","e","x",".","h","t","m","l">> >>

\* the files under public/, as sequences of path segments
PublicFiles ==
  { <<ImagesDir, AnswersDir, f[1] \o Dot \o ExtChars[f[2]]>> : f \in localImages }
    \cup { <<SoundsDir, f>> : f \in localSounds }
    \cup { IndexHtml }

\* res.sendFile(path.join(__dirname, 'public', 'index.html'))
FallbackReply == [status |-> 200, file |-> IndexHtml]

\* express.static, then (for a pathname that is no API route) app.get('*')
StaticReply(pathname) ==
  LET decoded == decodeURIComponent(pathname)
      file    == normalize(Split(decoded, "/"), <<>>)
  IN IF decoded = <<"%">>
       THEN ErrorReply(400, "Bad Request")
     ELSE IF file # <<>> /\ file[1] = DotDot
       THEN ErrorReply(403, "Forbidden")
     ELSE IF file \in PublicFiles
       THEN [status |-> 200, file |-> file]
     ELSE FallbackReply

\* GET of a pathname outside /api: the middleware in the order of app.use
GetReply(pathname) ==
  IF MountMatches(ImagesAnswersMount, pathname)
    THEN ErrorReply(403, "Access denied")
  ELSE IF MountMatches(SoundsMount, pathname)
    THEN ErrorReply(403, "Access denied")
  ELSE StaticReply(pathname)

GetRequest(pathnames) ==
  /\ Listening
  /\ \E pathname \in pathnames :
       Send("get", [pathname |-> pathname], GetReply(pathname))
  /\ UNCHANGED <<asideVars, configVars, catalogVars, clock, assetVars>>

\* the clock readings of one synchronous handler that reads the clock three
\* times: midnight may pass between two readings
ClockReadings ==
  { r \in [1..3 -> clock..Min(clock + 1, MaxDay)] :
      r[1] = clock /\ r[2] <= r[3] }

DateAt(c) == DateStr(CalendarDays[c])

TodayRequest ==
  /\ Listening
  /\ \E r \in ClockReadings :
       /\ clock' = r[3]
       /\ resp' = [ep    |-> "today",
                   req   |-> [reads |-> [i \in 1..3 |-> DateAt(r[i])]],
                   at    |-> DateAt(r[1]),
                   reply |-> TodayReply(DateAt(r[1]), DateAt(r[2]), DateAt(r[3]))]
  /\ UNCHANGED <<asideVars, configVars, catalogVars, assetVars>>

ListRequest ==
  /\ Listening
  /\ \E r \in ClockReadings :
       /\ clock' = r[3]
       /\ resp' = [ep    |-> "list",
                   req   |-> [reads |-> [i \in 1..3 |-> DateAt(r[i])]],
                   at    |-> DateAt(r[1]),
                   reply |-> ListReply(DateAt(r[1]), DateAt(r[2]), DateAt(r[3]))]
  /\ UNCHANGED <<asideVars, configVars, catalogVars, assetVars>>

\* the image handler without the date gate: a catalog puzzle is resolved
\* whatever its date
ImageRequestUngated(ids) ==
  /\ Listening
  /\ \E id \in ids :
       LET puzzle == FindPuzzle(JString(id))
           req    == [puzzleId |-> JString(id)]
       IN IF puzzle = NoPuzzle
            THEN /\ Send("image", req, ErrorReply(404, "Not found"))
                 /\ UNCHANGED assetVars
          ELSE IF CacheHas(imageCache, id)
            THEN /\ Send("image", req, ServeEntry(imageCache[id], "No image available"))
                 /\ UNCHANGED assetVars
          ELSE IF LocalHits(id) # {}
            THEN LET entry == ImageEntry("local", id, extensions[FirstOf(LocalHits(id))])
                 IN /\ imageCache' = (id :> entry) @@ imageCache
                    /\ Send("image", req, ServeEntry(entry, "No image available"))
                    /\ resolvedLocally' = resolvedLocally \cup {<<"image", id>>}
                    /\ UNCHANGED <<soundCache, tasks>>
          ELSE /\ imageCache' = (id :> NullEntry) @@ imageCache
               /\ Send("image", req, ErrorReply(404, "No image available"))
               /\ UNCHANGED <<soundCache, tasks, resolvedLocally>>
  /\ UNCHANGED <<asideVars, configVars, catalogVars, clock>>

\* the image handler up to its first await (or to its end when it has none)
ImageRequest(ids) ==
  /\ Listening
  /\ \E id \in ids :
       LET puzzle == FindPuzzle(JString(id))
           req    == [puzzleId |-> JString(id)]
       IN IF puzzle = NoPuzzle
            THEN /\ Send("image", req, ErrorReply(404, "Not found"))
                 /\ UNCHANGED assetVars
          ELSE IF NotYetAvailable(puzzle, getEasternDateString)
            THEN /\ Send("image", req, ErrorReply(403, "Not available yet"))
                 /\ UNCHANGED assetVars
          ELSE IF CacheHas(imageCache, id)
            THEN /\ Send("image", req, ServeEntry(imageCache[id], "No image available"))
                 /\ UNCHANGED assetVars
          ELSE IF LocalHits(id) # {}
            THEN LET entry == ImageEntry("local", id, extensions[FirstOf(LocalHits(id))])
                 IN /\ imageCache' = (id :> entry) @@ imageCache
                    /\ Send("image", req, ServeEntry(entry, "No image available"))
                    /\ resolvedLocally' = resolvedLocally \cup {<<"image", id>>}
                    /\ UNCHANGED <<soundCache, tasks>>
          ELSE IF mirrorConfigured
            THEN /\ FreeSlots # {}
                 /\ tasks' = [tasks EXCEPT ![FirstOf(FreeSlots)] =
                                [kind |-> "image", id |-> id, ext |-> 1,
                                 stage |-> "fetch"]]
                 /\ UNCHANGED <<imageCache, soundCache, resolvedLocally, resp>>
          ELSE /\ imageCache' = (id :> NullEntry) @@ imageCache
               /\ Send("image", req, ErrorReply(404, "No image available"))
               /\ UNCHANGED <<soundCache, tasks, resolvedLocally>>
  /\ UNCHANGED <<asideVars, configVars, catalogVars, clock>>

\* a remote miss is not absorbed: the failure reaches the client as a 500
ImageMissedPropagates(n) ==
  LET t == tasks[n]
  IN /\ Send("image", [puzzleId |-> JString(t.id)], Thrown("fetch failed"))
     /\ tasks' = [tasks EXCEPT ![n] = Idle]
     /\ UNCHANGED <<imageCache, soundCache, resolvedLocally>>

\* the image handler after a remote candidate missed (ghRes.ok false, or an
\* exception swallowed by `catch {}`): the next extension, or the memoized
\* miss and 404 after the last one
ImageMissed(n) ==
  LET t == tasks[n]
  IN IF t.ext < Len(extensions)
       THEN /\ tasks' = [tasks EXCEPT ![n] = [t EXCEPT !.ext = t.ext + 1,
                                                       !.stage = "fetch"]]
            /\ UNCHANGED <<imageCache, soundCache, resolvedLocally, resp>>
       ELSE /\ imageCache' = (t.id :> NullEntry) @@ imageCache
            /\ Send("image", [puzzleId |-> JString(t.id)],
                    ErrorReply(404, "No image available"))
            /\ tasks' = [tasks EXCEPT ![n] = Idle]
            /\ UNCHANGED <<soundCache, resolvedLocally>>

\* the image handler resumed after `await fetch(url)`
ImageFetchSettles(n) ==
  /\ resp = NoResponse
  /\ tasks[n] # Idle
  /\ tasks[n].kind = "image"
  /\ tasks[n].stage = "fetch"
  /\ \E outcome \in FetchOutcomes(tasks[n]) :
       IF outcome = "ok"
         THEN /\ tasks' = [tasks EXCEPT ![n].stage = "body"]
              /\ UNCHANGED <<imageCache, soundCache, resolvedLocally, resp>>
         ELSE ImageMissed(n)
  /\ UNCHANGED <<asideVars, configVars, catalogVars, clock>>

\* the image handler resumed after `await ghRes.arrayBuffer()`
ImageBodySettles(n) ==
  /\ resp = NoResponse
  /\ tasks[n] # Idle
  /\ tasks[n].kind = "image"
  /\ tasks[n].stage = "body"
  /\ \E outcome \in BodyOutcomes :
       IF outcome = "ok"
         THEN LET t     == tasks[n]
                  entry == ImageEntry("mirror", t.id, extensions[t.ext])
              IN /\ imageCache' = (t.id :> entry) @@ imageCache
                 /\ Send("image", [puzzleId |-> JString(t.id)],
                         ServeEntry(entry, "No image available"))
                 /\ tasks' = [tasks EXCEPT ![n] = Idle]
                 /\ UNCHANGED <<soundCache, resolvedLocally>>
         ELSE ImageMissed(n)
  /\ UNCHANGED <<asideVars, configVars, catalogVars, clock>>

\* the local store is probed whether or not SKIP_LOCAL_SOUNDS is set
LocalSoundFoundIgnoringSkip(filename) == filename \in localSounds

\* !process.env.SKIP_LOCAL_SOUNDS && fs.existsSync(localPath)
LocalSoundFound(filename) == ~skipLocalSounds /\ filename \in localSounds

\* the sound handler up to its first await (or to its end when it has none)
SoundRequest(filenames) ==
  /\ Listening
  /\ \E filename \in filenames :
       LET req == [filename |-> filename]
       IN IF ~SafeFilename(filename)
            THEN /\ Send("sound", req, ErrorReply(400, "Invalid filename"))
                 /\ UNCHANGED assetVars
          ELSE IF CacheHas(soundCache, filename)
            THEN /\ Send("sound", req,
                         ServeEntry(soundCache[filename], "Sound not found"))
                 /\ UNCHANGED assetVars
          ELSE IF LocalSoundFound(filename)
            THEN LET entry == SoundEntry("local", filename)
                 IN /\ soundCache' = (filename :> entry) @@ soundCache
                    /\ Send("sound", req, ServeEntry(entry, "Sound not found"))
                    /\ resolvedLocally' = resolvedLocally \cup {<<"sound", filename>>}
                    /\ UNCHANGED <<imageCache, tasks>>
          ELSE IF mirrorConfigured
            THEN /\ FreeSlots # {}
                 /\ tasks' = [tasks EXCEPT ![FirstOf(FreeSlots)] =
                                [kind |-> "sound", id |-> filename, ext |-> 1,
                                 stage |-> "fetch"]]
                 /\ UNCHANGED <<imageCache, soundCache, resolvedLocally, resp>>
          ELSE /\ soundCache' = (filename :> NullEntry) @@ soundCache
               /\ Send("sound", req, ErrorReply(404, "Sound not found"))
               /\ UNCHANGED <<imageCache, tasks, resolvedLocally>>
  /\ UNCHANGED <<asideVars, configVars, catalogVars, clock>>

\* the sound handler after its remote fetch missed: the memoized miss and 404
SoundMissed(n) ==
  LET t == tasks[n]
  IN /\ soundCache' = (t.id :> NullEntry) @@ soundCache
     /\ Send("sound", [filename |-> t.id], ErrorReply(404, "Sound not found"))
     /\ tasks' = [tasks EXCEPT ![n] = Idle]
     /\ UNCHANGED <<imageCache, resolvedLocally>>

\* the sound handler resumed after `await fetch(url)`
SoundFetchSettles(n) ==
  /\ resp = NoResponse
  /\ tasks[n] # Idle
  /\ tasks[n].kind = "sound"
  /\ tasks[n].stage = "fetch"
  /\ \E outcome \in FetchOutcomes(tasks[n]) :
       IF outcome = "ok"
         THEN /\ tasks' = [tasks EXCEPT ![n].stage = "body"]
              /\ UNCHANGED <<imageCache, soundCache, resolvedLocally, resp>>
         ELSE SoundMissed(n)
  /\ UNCHANGED <<asideVars, configVars, catalogVars, clock>>

\* the sound handler resumed after `await ghRes.arrayBuffer()`
SoundBodySettles(n) ==
  /\ resp = NoResponse
  /\ tasks[n] # Idle
  /\ tasks[n].kind = "sound"
  /\ tasks[n].stage = "body"
  /\ \E outcome \in BodyOutcomes :
       IF outcome = "ok"
         THEN LET t     == tasks[n]
                  entry == SoundEntry("mirror", t.id)
              IN /\ soundCache' = (t.id :> entry) @@ soundCache
                 /\ Send("sound", [filename |-> t.id],
                         ServeEntry(entry, "Sound not found"))
                 /\ tasks' = [tasks EXCEPT ![n] = Idle]
                 /\ UNCHANGED <<imageCache, resolvedLocally>>
         ELSE SoundMissed(n)
  /\ UNCHANGED <<asideVars, configVars, catalogVars, clock>>

\* a file is put into, or taken out of, public/images/answers or
\* public/sounds while the server runs, between two handler steps
LocalStoreChanges(images, sounds) ==
  /\ Listening
  /\ \/ \E f \in images :
          /\ localImages' = IF f \in localImages THEN localImages \ {f}
                                                ELSE localImages \cup {f}
          /\ UNCHANGED localSounds
     \/ \E f \in sounds :
          /\ localSounds' = IF f \in localSounds THEN localSounds \ {f}
                                                ELSE localSounds \cup {f}
          /\ UNCHANGED localImages
  /\ UNCHANGED <<asideVars, env, dictFile, mirrorConfigured, skipLocalSounds,
                 mirror, catalogVars, clock, assetVars, resp>>

\* ------------------------------------------------------------------------
\* The server answering requests (no content mirror configured)
\* ------------------------------------------------------------------------
KeyA == CalendarDays[2]

KeyB == CalendarDays[3]

KeyC == CalendarDays[4]

\* an id no configuration entry has
UnknownId == <<"2","0","2","4","0","1","0","1">>

ALLOY == <<"A", "L", "L", "O", "Y">>

LOLLY == <<"L", "O", "L", "L", "Y">>

ROBOT == <<"R","O","B","O","T">>

R2D2 == <<"R","2","-","D","2">>

LOYAL == <<"L","O","Y","A","L">>

Optional(key, values) == { <<>> } \cup { key :> v : v \in values }

ServerEnvs ==
  { a @@ b @@ c :
      a \in Optional(KeyA, { <<"a","l","l","o","y","|","c","1">> }),
      b \in Optional(KeyB,
             { <<" ","R","O","B","O","T"," ","|","c","2","|",
                 "w",".","m","p","3",",","l",".","o","g","g">>,
               <<"R","O","B","O","|","c","2">> }),
      c \in Optional(KeyC, { <<"R","2","-","D","2","|","c","3">> }) }

ServerDictFiles ==
  { NoFile,
    FileOf({ <<"l","o","l","l","y">>, <<"r","o","b","o","t"," ">>,
             <<"r","2","-","d","2">>, <<"l","o","l">> }) }

ServerLocalImages == { <<KeyA, "jpg">>, <<KeyA, "webp">>, <<KeyC, "png">> }

Init ==
  /\ AsideOff
  /\ env \in ServerEnvs
  /\ dictFile \in ServerDictFiles
  /\ booted = FALSE
  /\ PUZZLES = <<>>
  /\ VALID_WORDS = {}
  /\ clock = 1
  /\ imageCache = <<>>
  /\ localImages = ServerLocalImages
  /\ mirrorConfigured = FALSE
  /\ tasks = [n \in 1..MaxInflight |-> Idle]
  /\ soundCache = <<>>
  /\ localSounds = {}
  /\ skipLocalSounds = FALSE
  /\ mirror = NoMirror
  /\ resolvedLocally = {}
  /\ resp = NoResponse

PathIds == { KeyA, KeyB, KeyC, UnknownId }

BodyPuzzleIds ==
  { JString(id) : id \in PathIds }
    \cup { JString(<<>>), JNumber(20240229), JUndefined }

GuessCores ==
  { ALLOY, <<"a","l","l","o","y">>, ROBOT, R2D2, <<"r","2","-","d","2">>,
    LOLLY, LOYAL, <<"R","O","B","O">>, <<"R","O","B","O","T","S">>,
    <<"R","O","!","O","T">>, <<"R","O"," ","O","T">>, <<>> }

Pads == { <<>>, <<" ">> }

BodyGuesses ==
  { JString(p \o g \o q) : p \in Pads, g \in GuessCores, q \in Pads }
    \cup { JNumber(12345), JNumber(0), JArray(<<>>), JArray(ROBOT), JObject,
           JNull, JUndefined }

KeyAJpg == KeyA \o <<".","j","p","g">>

\* pathnames of GET requests outside /api
Pathnames ==
  { <<"/","i","m","a","g","e","s","/","a","n","s","w","e","r","s","/">> \o KeyAJpg,
    <<"/","I","m","a","g","e","s","/","A","N","S","W","E","R","S","/">> \o KeyAJpg,
    <<"/","i","m","a","g","e","s","/","%","6","1","n","s","w","e","r","s","/">> \o KeyAJpg,
    <<"/","i","m","a","g","e","s","/","/","a","n","s","w","e","r","s","/">> \o KeyAJpg,
    <<"/","i","m","a","g","e","s","%","2","F","a","n","s","w","e","r","s","%","2","F">> \o KeyAJpg,
    <<"/","i","m","a","g","e","s","/","x","/",".",".","/","a","n","s","w","e","r","s","/">> \o KeyAJpg,
    <<"/","i","m","a","g","e","s","/","a","n","s","w","e","r","s","/">> \o KeyA \o <<".","g","i","f">>,
    <<"/","i","m","a","g","e","s","/","a","n","s","w","e","r","s">>,
    <<"/","s","o","u","n","d","s","/","w","i","n",".","m","p","3">>,
    <<"/","s","%","6","1","u","n","d","s","/","w","i","n",".","m","p","3">>,
    <<"/",".",".","/","s","e","r","v","e","r",".","j","s">>,
    <<"/","%","z","z">>,
    <<"/">>,
    <<"/","i","n","d","e","x",".","h","t","m","l">> }

Next ==
  \/ Boot
  \/ Tick
  \/ Deliver
  \/ GuessRequest(BodyPuzzleIds, BodyGuesses)
  \/ PuzzleRequest(PathIds)
  \/ RevealRequest(BodyPuzzleIds)
  \/ ImageRequest(PathIds)
  \/ TodayRequest
  \/ ListRequest
  \/ GetRequest(Pathnames)

Spec == Init /\ [][Next]_vars

\* ------------------------------------------------------------------------
\* Start-up on its own: the catalog loaded from many configurations
\* ------------------------------------------------------------------------
\* a key in the README's format, PUZZLE_001: not 8 digits
Key001 == <<"0", "0", "1">>

LoadAlphabet == {"a", "B", "2", "-", " ", "!"}

\* the text before the first pipe: every 5-character text over
\* LoadAlphabet, and shorter and longer ones with padding
LoadAnswers ==
  [1..WordLen -> LoadAlphabet]
    \cup [1..(WordLen - 1) -> {"a", " "}]
    \cup [1..(WordLen + 1) -> {"a", " "}]

LoadFewAnswers ==
  { ALLOY, <<"r","o","b","o","t">>, <<"R","O","B","O">>,
    <<"R","2","!","D","2">> }

\* the text from the first pipe on
LoadTails ==
  { <<"|">>,
    <<"|","c">>,
    <<"|","|">>,
    <<"|","c","|">>,
    <<"|","c","|","w",".","m","p","3">>,
    <<"|","c","|","w",".","m","p","3",",","l",".","o","g","g">>,
    <<"|","c","|",",","l",".","o","g","g">>,
    <<"|"," ","c"," ","|"," ","w",".","m","p","3"," ",","," ",
      "l",".","o","g","g"," ">>,
    <<"|","c","|",",">>,
    <<"|","c","|","w",".","m","p","3","|","x",",","y">> }

LoadValues ==
  { a \o <<"|","c">> : a \in LoadAnswers }
    \cup { a \o t : a \in LoadFewAnswers, t \in LoadTails }
    \cup LoadFewAnswers
    \cup { <<>> }

LoadEnvs ==
  { (KeyA :> v) @@ b @@ k :
      v \in LoadValues,
      b \in Optional(KeyB, { <<"R","O","B","O","T","|","c","2">>,
                             <<"R","O","B","O","|","c","2">> }),
      k \in Optional(Key001, { <<"A","L","L","O","Y","|","c","0">> }) }

InitLoad ==
  /\ AsideOff
  /\ env \in LoadEnvs
  /\ dictFile \in ServerDictFiles
  /\ booted = FALSE
  /\ PUZZLES = <<>>
  /\ VALID_WORDS = {}
  /\ clock = 1
  /\ imageCache = <<>>
  /\ localImages = {}
  /\ mirrorConfigured = FALSE
  /\ tasks = [n \in 1..MaxInflight |-> Idle]
  /\ soundCache = <<>>
  /\ localSounds = {}
  /\ skipLocalSounds = FALSE
  /\ mirror = NoMirror
  /\ resolvedLocally = {}
  /\ resp = NoResponse

NextLoad == Boot \/ TodayRequest \/ ListRequest \/ Deliver

SpecLoad == InitLoad /\ [][NextLoad]_vars

\* ------------------------------------------------------------------------
\* Asset resolution: the image and sound handlers, with overlapping requests
\* ------------------------------------------------------------------------
WinMp3 == <<"w","i","n",".","m","p","3">>

LoseOgg == <<"L","o","-","1",".","O","G","G">>

\* filenames the pattern refuses
UnsafeFilenames ==
  { <<".",".","/","w",".","m","p","3">>,
    <<"a",".","b",".","m","p","3">>,
    <<".","m","p","3">>,
    <<"w","i","n",".","m","p","4">> }

SoundFilenames == { WinMp3, LoseOgg } \cup UnsafeFilenames

AssetEnv ==
  (KeyA :> <<"a","l","l","o","y","|","c","1">>)
    @@ (KeyC :> <<"R","2","-","D","2","|","c","3">>)

AssetMirror == [images |-> { <<KeyA, "gif">> }, sounds |-> { LoseOgg }]

InitAssets ==
  /\ AsideOff
  /\ env = AssetEnv
  /\ dictFile = NoFile
  /\ booted = FALSE
  /\ PUZZLES = <<>>
  /\ VALID_WORDS = {}
  /\ clock = 3
  /\ imageCache = <<>>
  /\ localImages = {}
  /\ mirrorConfigured \in BOOLEAN
  /\ tasks = [n \in 1..MaxInflight |-> Idle]
  /\ soundCache = <<>>
  /\ localSounds = { WinMp3, <<".",".","/","w",".","m","p","3">> }
  /\ skipLocalSounds \in BOOLEAN
  /\ mirror = AssetMirror
  /\ resolvedLocally = {}
  /\ resp = NoResponse

AssetIds == { KeyA, KeyC, UnknownId }

NextAssets ==
  \/ Boot
  \/ Deliver
  \/ ImageRequest(AssetIds)
  \/ SoundRequest(SoundFilenames)
  \/ \E n \in DOMAIN tasks : ImageFetchSettles(n)
  \/ \E n \in DOMAIN tasks : ImageBodySettles(n)
  \/ \E n \in DOMAIN tasks : SoundFetchSettles(n)
  \/ \E n \in DOMAIN tasks : SoundBodySettles(n)
  \/ LocalStoreChanges({ <<KeyA, "jpg">>, <<KeyA, "webp">> }, { WinMp3 })

SpecAssets == InitAssets /\ [][NextAssets]_vars

\* the same with every response sent eventually leaving; nothing in the code
\* bounds the time a fetch takes to settle (no signal, no timer, no race)
SpecAssetsFair == SpecAssets /\ WF_vars(Deliver)

\* ------------------------------------------------------------------------
\* Every API route together: metadata, guesses and reveals among asset
\* resolutions that await the content mirror
\* ------------------------------------------------------------------------
InitServer ==
  /\ AsideOff
  /\ env = AssetEnv
  /\ dictFile = NoFile
  /\ booted = FALSE
  /\ PUZZLES = <<>>
  /\ VALID_WORDS = {}
  /\ clock = 3
  /\ imageCache = <<>>
  /\ localImages = { <<KeyC, "png">> }
  /\ mirrorConfigured = TRUE
  /\ tasks = [n \in 1..MaxInflight |-> Idle]
  /\ soundCache = <<>>
  /\ localSounds = { WinMp3 }
  /\ skipLocalSounds = FALSE
  /\ mirror = AssetMirror
  /\ resolvedLocally = {}
  /\ resp = NoResponse

NextServer ==
  \/ Boot
  \/ Tick
  \/ Deliver
  \/ GuessRequest({ JString(KeyA), JString(KeyC) }, { JString(ALLOY) })
  \/ PuzzleRequest({ KeyA, KeyC })
  \/ RevealRequest({ JString(KeyA) })
  \/ TodayRequest
  \/ ListRequest
  \/ ImageRequest(AssetIds)
  \/ SoundRequest({ WinMp3, LoseOgg })
  \/ \E n \in DOMAIN tasks : ImageFetchSettles(n)
  \/ \E n \in DOMAIN tasks : ImageBodySettles(n)
  \/ \E n \in DOMAIN tasks : SoundFetchSettles(n)
  \/ \E n \in DOMAIN tasks : SoundBodySettles(n)

SpecServer == InitServer /\ [][NextServer]_vars

\* ------------------------------------------------------------------------
\* The same guesses against two catalogs: the process is stopped, the answer
\* of a puzzle that is not yet released is replaced in the configuration, and
\* the process is started again on the same day
\* ------------------------------------------------------------------------
\* the configuration values the unreleased puzzle takes: the same clue and
\* another answer
TwinValues ==
  { <<"R","2","-","D","2","|","c","3">>, <<"R","O","B","O","T","|","c","3">> }

\* the process exits (its constants and caches go with it) and the entry of
\* a puzzle dated after the current date is given another of the values
Redeploy(values) ==
  /\ Listening
  /\ \A n \in DOMAIN tasks : tasks[n] = Idle
  /\ \E k \in DOMAIN env, v \in values :
       /\ StrLess(getEasternDateString, DateStr(k))
       /\ v # env[k]
       /\ env' = [env EXCEPT ![k] = v]
  /\ booted' = FALSE
  /\ PUZZLES' = <<>>
  /\ VALID_WORDS' = {}
  /\ imageCache' = <<>>
  /\ soundCache' = <<>>
  /\ resolvedLocally' = {}
  /\ UNCHANGED <<asideVars, dictFile, localImages, mirrorConfigured,
                 localSounds, skipLocalSounds, mirror, clock, tasks, resp>>

InitTwin ==
  /\ EvalOff
  /\ MidnightOff
  /\ ClientFresh
  /\ guessLog = EmptyLog
  /\ env = AssetEnv
  /\ dictFile \in ServerDictFiles
  /\ booted = FALSE
  /\ PUZZLES = <<>>
  /\ VALID_WORDS = {}
  /\ clock = 2
  /\ imageCache = <<>>
  /\ localImages = {}
  /\ mirrorConfigured = FALSE
  /\ tasks = [n \in 1..MaxInflight |-> Idle]
  /\ soundCache = <<>>
  /\ localSounds = {}
  /\ skipLocalSounds = FALSE
  /\ mirror = NoMirror
  /\ resolvedLocally = {}
  /\ resp = NoResponse

NextTwin ==
  \/ Boot
  \/ Tick
  \/ Deliver
  \/ GuessRequest({ JString(KeyA) }, { JString(ALLOY), JString(R2D2) })
  \/ Redeploy(TwinValues)

SpecTwin == InitTwin /\ [][NextTwin]_vars

\* ------------------------------------------------------------------------
\* The evaluator on its own: every pair of pre-validated words
\* ------------------------------------------------------------------------
EvalAlphabet == {"A", "L", "O", "Y"}

EvalWords == [1..WordLen -> EvalAlphabet]

InitEval ==
  /\ evalGuess \in EvalWords
  /\ evalAnswer \in EvalWords
  /\ evalResult = <<>>
  /\ MidnightOff
  /\ guessLog = NoLog
  /\ ClientFresh
  /\ ServerOff

Evaluate ==
  /\ evalGuess # <<>>
  /\ evalResult = <<>>
  /\ evalResult' = checkGuess(evalGuess, evalAnswer)
  /\ UNCHANGED <<evalGuess, evalAnswer, midnightVars, clientVars, guessLog,
                 serverVars>>

NextEval == Evaluate

SpecEval == InitEval /\ [][NextEval]_vars

\* ------------------------------------------------------------------------
\* Guesses among image resolutions that await the content mirror
\* ------------------------------------------------------------------------
InitGuess ==
  /\ EvalOff
  /\ MidnightOff
  /\ ClientFresh
  /\ guessLog = EmptyLog
  /\ env = AssetEnv
  /\ dictFile = NoFile
  /\ booted = FALSE
  /\ PUZZLES = <<>>
  /\ VALID_WORDS = {}
  /\ clock = 3
  /\ imageCache = <<>>
  /\ localImages = {}
  /\ mirrorConfigured = TRUE
  /\ tasks = [n \in 1..MaxInflight |-> Idle]
  /\ soundCache = <<>>
  /\ localSounds = {}
  /\ skipLocalSounds = FALSE
  /\ mirror = AssetMirror
  /\ resolvedLocally = {}
  /\ resp = NoResponse

NextGuess ==
  \/ Boot
  \/ Tick
  \/ Deliver
  \/ GuessRequest({ JString(KeyC) }, { JString(R2D2), JString(ALLOY) })
  \/ ImageRequest({ KeyA })
  \/ \E n \in DOMAIN tasks : ImageFetchSettles(n)
  \/ \E n \in DOMAIN tasks : ImageBodySettles(n)

SpecGuess == InitGuess /\ [][NextGuess]_vars

\* ------------------------------------------------------------------------
\* The client: typing and submitting guesses, switching puzzles
\* (public/js/app.js)
\* ------------------------------------------------------------------------
WORD_LENGTH == 5

MAX_GUESSES == 6

\* most guess requests awaiting their response at the same time
MaxPending == 2

\* most puzzle requests awaiting their response at the same time
MaxLoads == 1

\* the puzzles the player plays, with their answers (known to the server)
ClientAnswers == (KeyA :> ALLOY) @@ (KeyB :> ROBOT)

\* the answer of the puzzle the page shows first
ClientAnswer == ClientAnswers[KeyA]

\* the words the player types
ClientWords == { ALLOY, LOLLY }

\* the keys of the keyboard the player uses
ClientKeys == UNION { Range(w) : w \in ClientWords }

\* the letters typed are the beginning of one of the player's words
Typable(g) == \E w \in ClientWords : Len(g) <= Len(w) /\ SubSeq(w, 1, Len(g)) = g

\* how a fetch ends: a 200 response, another response, or an exception (no
\* connection, or a body that is not JSON)
ResponseOutcomes == {"ok", "notok", "throw"}

\* the body of the 200 response of POST /api/guess { puzzleId, guess }
GuessData(puzzleId, guess) ==
  [result  |-> checkGuess(guess, ClientAnswers[puzzleId]),
   correct |-> guess = ClientAnswers[puzzleId]]

\* the state getPuzzleState creates for a puzzle that has none
NewPuzzleState == [guesses |-> <<>>, status |-> "in-progress"]

\* gameState after getPuzzleState(puzzleId)
WithPuzzleState(gs, puzzleId) ==
  IF puzzleId \in DOMAIN gs THEN gs ELSE (puzzleId :> NewPuzzleState) @@ gs

\* getPuzzleState(puzzleId): the state it returns
getPuzzleState(puzzleId) == WithPuzzleState(gameState, puzzleId)[puzzleId]

\* the saved state of the puzzle the page shows
pStateGuesses == getPuzzleState(currentPuzzle).guesses

pStateStatus == getPuzzleState(currentPuzzle).status

\* the requests recorded so far under a puzzle
SentFor(log, puzzleId) == IF puzzleId \in DOMAIN log THEN log[puzzleId] ELSE <<>>

\* handleKeyPress returns at once: if (gameOver || isRevealing) return
InputLocked == gameOver \/ isRevealing

\* handleKeyPress(key), key a letter
KeyLetter(keys) ==
  /\ ~InputLocked
  /\ Len(currentGuess) < WORD_LENGTH
  /\ \E key \in keys :
       /\ Typable(Append(currentGuess, key))
       /\ currentGuess' = Append(currentGuess, key)
  /\ UNCHANGED <<currentPuzzle, gameState, localStorage, currentRow, gameOver,
                 isRevealing, fetches, loads, timers, sentLog>>
  /\ UNCHANGED <<evalVars, midnightVars, guessLog, serverVars>>

\* handleKeyPress(key) for the letters of a word in turn, on an empty row
TypeWord(words) ==
  /\ ~InputLocked
  /\ currentGuess = <<>>
  /\ \E w \in words : Len(w) = WORD_LENGTH /\ currentGuess' = w
  /\ UNCHANGED <<currentPuzzle, gameState, localStorage, currentRow, gameOver,
                 isRevealing, fetches, loads, timers, sentLog>>
  /\ UNCHANGED <<evalVars, midnightVars, guessLog, serverVars>>

\* handleKeyPress('DEL')
KeyDel ==
  /\ ~InputLocked
  /\ Len(currentGuess) > 0
  /\ currentGuess' = SubSeq(currentGuess, 1, Len(currentGuess) - 1)
  /\ UNCHANGED <<currentPuzzle, gameState, localStorage, currentRow, gameOver,
                 isRevealing, fetches, loads, timers, sentLog>>
  /\ UNCHANGED <<evalVars, midnightVars, guessLog, serverVars>>

\* handleKeyPress('SUBMIT'): submitGuess() up to `await fetch`; with fewer
\* letters than WORD_LENGTH it only shows a toast
KeySubmit ==
  /\ ~InputLocked
  /\ currentPuzzle # NullStr
  /\ Len(currentGuess) = WORD_LENGTH
  /\ Len(fetches) < MaxPending
  /\ fetches' = Append(fetches, [puzzleId |-> currentPuzzle,
                                 guess    |-> currentGuess])
  /\ UNCHANGED <<currentPuzzle, gameState, localStorage, currentGuess,
                 currentRow, gameOver, isRevealing, loads, timers, sentLog>>
  /\ UNCHANGED <<evalVars, midnightVars, guessLog, serverVars>>

\* the sequence without its i-th element
RemoveAt(q, i) == SubSeq(q, 1, i - 1) \o SubSeq(q, i + 1, Len(q))

\* submitGuess() resumed with the response of its fetch: the guess is pushed
\* onto the state of the puzzle shown by now, with the letters typed by now;
\* revealRow sets the lock and the timer (getTile is null beyond the last
\* row: the TypeError is caught by the handler's catch after the push and the
\* lock), then currentGuess is cleared and the state saved
GuessResponse(i) ==
  /\ i \in DOMAIN fetches
  /\ fetches' = RemoveAt(fetches, i)
  /\ \E outcome \in ResponseOutcomes :
       IF outcome = "ok"
         THEN LET data     == GuessData(fetches[i].puzzleId, fetches[i].guess)
                  guessNum == currentRow + 1
                  pushed   ==
                    [WithPuzzleState(gameState, currentPuzzle)
                       EXCEPT ![currentPuzzle].guesses =
                         Append(@, [word |-> currentGuess, result |-> data.result])]
              IN /\ gameState' = pushed
                 /\ sentLog' = (currentPuzzle :>
                                  Append(SentFor(sentLog, currentPuzzle), fetches[i]))
                               @@ sentLog
                 /\ isRevealing' = TRUE
                 /\ IF currentRow < MAX_GUESSES
                      THEN /\ timers' = Append(timers,
                                               [correct  |-> data.correct,
                                                guessNum |-> guessNum,
                                                pState   |-> currentPuzzle])
                           /\ currentGuess' = <<>>
                           /\ localStorage' = pushed
                      ELSE UNCHANGED <<timers, currentGuess, localStorage>>
                 /\ UNCHANGED <<currentPuzzle, currentRow, gameOver, loads>>
         ELSE UNCHANGED <<currentPuzzle, gameState, localStorage, currentGuess,
                          currentRow, gameOver, isRevealing, loads, timers,
                          sentLog>>
  /\ UNCHANGED <<evalVars, midnightVars, guessLog, serverVars>>

\* the 300 ms timer of revealRow: the lock is released and the callback of
\* submitGuess runs, on the puzzle state it captured
RevealDone ==
  /\ timers # <<>>
  /\ timers' = Tail(timers)
  /\ isRevealing' = FALSE
  /\ LET t == Head(timers)
     IN IF t.correct
          THEN /\ gameState' = [gameState EXCEPT ![t.pState].status = "won"]
               /\ localStorage' = gameState'
               /\ gameOver' = TRUE
               /\ UNCHANGED <<currentRow, currentGuess>>
        ELSE IF t.guessNum >= MAX_GUESSES
          THEN /\ gameState' = [gameState EXCEPT ![t.pState].status = "lost"]
               /\ localStorage' = gameState'
               /\ gameOver' = TRUE
               /\ UNCHANGED <<currentRow, currentGuess>>
        ELSE /\ currentRow' = currentRow + 1
             /\ currentGuess' = <<>>
             /\ localStorage' = gameState
             /\ UNCHANGED <<gameState, gameOver>>
  /\ UNCHANGED <<currentPuzzle, fetches, loads, sentLog>>
  /\ UNCHANGED <<evalVars, midnightVars, guessLog, serverVars>>

\* a click on a puzzle of the list: loadPuzzle(puzzleId) up to `await fetch`
LoadPuzzleClick(ids) ==
  /\ Len(loads) < MaxLoads
  /\ \E id \in ids : loads' = Append(loads, id)
  /\ UNCHANGED <<currentPuzzle, gameState, localStorage, currentGuess,
                 currentRow, gameOver, isRevealing, fetches, timers, sentLog>>
  /\ UNCHANGED <<evalVars, midnightVars, guessLog, serverVars>>

\* loadPuzzle() resumed with the response of its fetch: the puzzle becomes
\* the current one and the row, the letters and gameOver are taken from its
\* saved state (isRevealing and the pending callbacks are left as they are)
LoadPuzzleResponse(i) ==
  /\ i \in DOMAIN loads
  /\ loads' = RemoveAt(loads, i)
  /\ \E outcome \in ResponseOutcomes :
       IF outcome = "ok"
         THEN LET gs     == WithPuzzleState(gameState, loads[i])
                  pState == gs[loads[i]]
              IN /\ currentPuzzle' = loads[i]
                 /\ gameState' = gs
                 /\ currentRow' = Len(pState.guesses)
                 /\ currentGuess' = <<>>
                 /\ gameOver' = (pState.status \in {"won", "lost"})
         ELSE UNCHANGED <<currentPuzzle, gameState, currentRow, currentGuess,
                          gameOver>>
  /\ UNCHANGED <<localStorage, isRevealing, fetches, timers, sentLog>>
  /\ UNCHANGED <<evalVars, midnightVars, guessLog, serverVars>>

\* the wrong guesses the player has made before the page was loaded
SavedGuesses == 4

\* a puzzle state with that many wrong guesses, and the requests behind them
SavedState(puzzleId) ==
  [guesses |-> [i \in 1..SavedGuesses |->
                  [word |-> LOLLY,
                   result |-> checkGuess(LOLLY, ClientAnswers[puzzleId])]],
   status  |-> "in-progress"]

SavedRequests(puzzleId) ==
  [i \in 1..SavedGuesses |-> [puzzleId |-> puzzleId, guess |-> LOLLY]]

\* the page as init() and loadPuzzle leave it for a puzzle in progress: the
\* saved guesses are restored and the player is on the row after them
InitClient ==
  /\ EvalOff
  /\ MidnightOff
  /\ guessLog = NoLog
  /\ currentPuzzle = KeyA
  /\ gameState = (KeyA :> SavedState(KeyA))
  /\ localStorage = (KeyA :> SavedState(KeyA))
  /\ currentGuess = <<>>
  /\ currentRow = SavedGuesses
  /\ gameOver = FALSE
  /\ isRevealing = FALSE
  /\ fetches = <<>>
  /\ loads = <<>>
  /\ timers = <<>>
  /\ sentLog = (KeyA :> SavedRequests(KeyA))
  /\ ServerOff

NextClient ==
  \/ KeyLetter(ClientKeys)
  \/ KeyDel
  \/ KeySubmit
  \/ \E i \in 1..MaxPending : GuessResponse(i)
  \/ RevealDone

SpecClient == InitClient /\ [][NextClient]_vars

\* the state of a puzzle won at the first guess, and the request behind it
WonState(puzzleId) ==
  [guesses |-> << [word   |-> ClientAnswers[puzzleId],
                   result |-> checkGuess(ClientAnswers[puzzleId],
                                         ClientAnswers[puzzleId])] >>,
   status  |-> "won"]

WonRequests(puzzleId) ==
  << [puzzleId |-> puzzleId, guess |-> ClientAnswers[puzzleId]] >>

\* the same page with the list of puzzles in use: the player switches
\* between a puzzle in progress and a puzzle already won while guesses and
\* reveals are pending
InitSwitch ==
  /\ EvalOff
  /\ MidnightOff
  /\ guessLog = NoLog
  /\ currentPuzzle = KeyA
  /\ gameState = (KeyA :> SavedState(KeyA)) @@ (KeyB :> WonState(KeyB))
  /\ localStorage = gameState
  /\ currentGuess = <<>>
  /\ currentRow = SavedGuesses
  /\ gameOver = FALSE
  /\ isRevealing = FALSE
  /\ fetches = <<>>
  /\ loads = <<>>
  /\ timers = <<>>
  /\ sentLog = (KeyA :> SavedRequests(KeyA)) @@ (KeyB :> WonRequests(KeyB))
  /\ ServerOff

NextSwitch ==
  \/ TypeWord({ ClientAnswer })
  \/ KeySubmit
  \/ \E i \in 1..MaxPending : GuessResponse(i)
  \/ RevealDone
  \/ LoadPuzzleClick(DOMAIN ClientAnswers)
  \/ \E i \in 1..MaxLoads : LoadPuzzleResponse(i)

SpecSwitch == InitSwitch /\ [][NextSwitch]_vars

\* ------------------------------------------------------------------------
\* getNextMidnightEasternUTC on its own
\* ------------------------------------------------------------------------
\* the calls are made from 05:00 UTC of the first day of the window on, every
\* half hour for two days, on the second and a quarter of a second after it
HalfHours == 96

CallInstants ==
  { 5 * Hour + k * 30 * Minute + ms : k \in 0..(HalfHours - 1), ms \in {0, 250} }

InitMidnight ==
  /\ EvalOff
  /\ season \in Seasons
  /\ serverZone \in {UTC, NewYork}
  /\ now \in CallInstants
  /\ nextMidnight = NoInstant
  /\ guessLog = NoLog
  /\ ClientFresh
  /\ ServerOff

CallNextMidnight ==
  /\ season \in Seasons
  /\ nextMidnight = NoInstant
  /\ nextMidnight' = getNextMidnightEasternUTCAt(serverZone, season, now)
  /\ UNCHANGED <<evalVars, season, serverZone, now, clientVars, guessLog,
                 serverVars>>

NextMidnightStep == CallNextMidnight

SpecMidnight == InitMidnight /\ [][NextMidnightStep]_vars

\* ------------------------------------------------------------------------
\* Properties of checkGuess
\* ------------------------------------------------------------------------
Evaluated == evalResult # <<>>

Occurrences(c, w) == Cardinality({ i \in DOMAIN w : w[i] = c })

StatusAt(i) == evalResult[i].status

Hit(i) == StatusAt(i) \in {"correct", "present"}

\* C1: checkGuess returns exactly 5 marks, each correct, present or absent,
\* mark i carries the letter guess[i], and the number of correct marks is the
\* number of indices where guess and answer hold the same character.
C1_FiveMarksCorrectCount ==
  Evaluated =>
    /\ DOMAIN evalResult = 1..5
    /\ \A i \in 1..5 :
         /\ StatusAt(i) \in {"correct", "present", "absent"}
         /\ evalResult[i].letter = evalGuess[i]
    /\ Cardinality({ i \in 1..5 : StatusAt(i) = "correct" })
         = Cardinality({ i \in 1..5 : evalGuess[i] = evalAnswer[i] })

C1_Witness ==
  /\ Evaluated
  /\ \E i, j, k \in 1..5 :
       /\ StatusAt(i) = "correct"
       /\ StatusAt(j) = "present"
       /\ StatusAt(k) = "absent"

\* C2: guess LOLLY against answer ALLOY yields present(L), present(O),
\* correct(L), absent(L), correct(Y), in index order.
C2_LollyAgainstAlloy ==
  (Evaluated /\ evalGuess = LOLLY /\ evalAnswer = ALLOY) =>
    evalResult = << Mark("L", "present"), Mark("O", "present"),
                    Mark("L", "correct"), Mark("L", "absent"),
                    Mark("Y", "correct") >>

C2_Witness == Evaluated /\ evalGuess = LOLLY /\ evalAnswer = ALLOY

\* C3: for every letter c the number of marks of c that are correct or
\* present is min(occurrences of c in the guess, occurrences in the answer),
\* and among the indices of c that are not correct the present marks go to
\* the lowest ones.
C3_FirstComeFirstServed ==
  Evaluated =>
    /\ \A c \in EvalAlphabet :
         Cardinality({ i \in 1..5 : evalGuess[i] = c /\ Hit(i) })
           = Min(Occurrences(c, evalGuess), Occurrences(c, evalAnswer))
    /\ \A j \in 1..5 :
         StatusAt(j) = "present" =>
           \A i \in 1..(j - 1) :
             (evalGuess[i] = evalGuess[j] /\ StatusAt(i) # "correct")
               => StatusAt(i) = "present"

\* a letter three times in the guess, twice in the answer, one exact match:
\* one present mark is handed out and it goes to the earlier free index
C3_Witness ==
  /\ Evaluated
  /\ \E c \in EvalAlphabet :
       /\ Occurrences(c, evalGuess) = 3
       /\ Occurrences(c, evalAnswer) = 2
       /\ \E i, j, k \in 1..5 :
            /\ i < j
            /\ evalGuess[i] = c /\ evalGuess[j] = c /\ evalGuess[k] = c
            /\ StatusAt(k) = "correct"
            /\ StatusAt(i) = "present"
            /\ StatusAt(j) = "absent"

\* the case of C4: letter c at exactly the two indices i < j of the guess,
\* exactly once in the answer
TwoInGuessOneInAnswer(c, i, j) ==
  /\ i < j
  /\ { k \in 1..5 : evalGuess[k] = c } = {i, j}
  /\ Occurrences(c, evalAnswer) = 1

\* C4 as stated: the earlier index is present or correct, the later absent.
C4_EarlierWinsAlways ==
  Evaluated =>
    \A c \in EvalAlphabet : \A i, j \in 1..5 :
      TwoInGuessOneInAnswer(c, i, j) => (Hit(i) /\ StatusAt(j) = "absent")

\* C4 as amended: exactly one of the two indices is marked and the other is
\* absent; the later index is the marked one exactly when the answer holds
\* the letter there (it is then correct), otherwise the earlier index is
\* present or correct and the later absent.
C4_EarlierWinsUnlessLaterExact ==
  Evaluated =>
    \A c \in EvalAlphabet : \A i, j \in 1..5 :
      TwoInGuessOneInAnswer(c, i, j) =>
        IF evalAnswer[j] = c
          THEN StatusAt(j) = "correct" /\ StatusAt(i) = "absent"
          ELSE Hit(i) /\ StatusAt(j) = "absent"

C4_Witness ==
  /\ Evaluated
  /\ \E c \in EvalAlphabet : \E i, j \in 1..5 :
       /\ TwoInGuessOneInAnswer(c, i, j)
       /\ evalAnswer[j] = c
       /\ StatusAt(j) = "correct"
       /\ StatusAt(i) = "absent"

\* ------------------------------------------------------------------------
\* Properties of the request handlers
\* ------------------------------------------------------------------------
\* the catalog puzzle the answered request names (NoPuzzle if none)
ReqPuzzle == FindPuzzle(resp.req.puzzleId)

\* the puzzle the answered request names was dated after the Eastern date
\* at which the request was handled
ReqFuture == ReqPuzzle # NoPuzzle /\ StrLess(resp.at, ReqPuzzle.date)

\* ... was dated on or before it
ReqAvailable == ReqPuzzle # NoPuzzle /\ StrLeq(ReqPuzzle.date, resp.at)

GuessAnswered == resp.ep = "guess"

StringGuess == GuessAnswered /\ resp.req.guess.t = "string"

\* the guess as the handler normalizes it
NormGuess == trim(toUpperCase(resp.req.guess.v))

WellFormed(g) == Len(g) = 5 /\ \A i \in DOMAIN g : g[i] \in AnswerCharset

AllMarksCorrect(result) == \A i \in 1..5 : result[i].status = "correct"

\* C5: in a 200 response of POST /api/guess the `correct` flag agrees with
\* the marks: all five marks are correct iff the normalized guess equals the
\* answer, iff correct is true.
C5_CorrectFlagAgreesWithMarks ==
  (GuessAnswered /\ resp.reply.status = 200) =>
    /\ resp.reply.correct <=> AllMarksCorrect(resp.reply.result)
    /\ AllMarksCorrect(resp.reply.result) <=> (NormGuess = ReqPuzzle.answer)

\* ROBOT guessed (in lower case, padded or not) against ROBOT
C5_Witness ==
  /\ GuessAnswered
  /\ resp.reply.status = 200
  /\ ReqPuzzle.answer = ROBOT
  /\ NormGuess = ROBOT
  /\ resp.reply.correct
  /\ AllMarksCorrect(resp.reply.result)

GatedAnswered == resp.ep \in {"puzzle", "guess", "image"}

\* the guess passes every check the handler makes before the puzzle lookup
GuessPassesChecks ==
  /\ StringGuess
  /\ WellFormed(NormGuess)
  /\ NormGuess \in VALID_WORDS

\* C6 as stated: at a gated endpoint a catalog puzzle dated after the
\* current date is answered 403 whatever the other request fields are, and
\* one dated on or before it is never answered 403.
C6_FutureAlways403 ==
  GatedAnswered =>
    /\ ReqFuture => resp.reply.status = 403
    /\ ReqAvailable => resp.reply.status # 403

\* C6 as amended: for a catalog puzzle dated after the current date, GET
\* /api/puzzle and GET /api/answer-image answer 403, and so does POST
\* /api/guess when the guess passes the checks made before the lookup;
\* a guess failing them is rejected by them and never evaluated; a puzzle
\* dated on or before the current date is never answered 403.
C6_FutureNeverServed ==
  GatedAnswered =>
    /\ ReqFuture =>
         /\ resp.reply.status # 200
         /\ (resp.ep \in {"puzzle", "image"} \/ GuessPassesChecks)
              => resp.reply.status = 403
         /\ (GuessAnswered /\ ~GuessPassesChecks) => resp.reply.status # 403
    /\ ReqAvailable => resp.reply.status # 403

C6_Witness ==
  /\ GuessAnswered
  /\ ReqFuture
  /\ GuessPassesChecks
  /\ resp.reply.status = 403

\* C7: no endpoint, POST /api/reveal included, returns the answer of a
\* puzzle dated after the current Eastern date.
C7_NoFutureAnswerReturned ==
  (resp.ep # "none" /\ resp.reply.status = 200 /\ "answer" \in DOMAIN resp.reply)
    => ~ReqFuture

\* C8 as stated: a guess with length # 5 or with a character outside
\* [A-Z0-9-] is answered 400, whatever puzzleId is.
C8_RawGuessRejected ==
  (StringGuess /\ ~WellFormed(resp.req.guess.v)) => resp.reply.status = 400

\* C8 as amended: a guess string whose trimmed, upper-cased form has length
\* # 5 or a character outside [A-Z0-9-] is answered 400 whatever puzzleId
\* is (unknown, future or available puzzle), and is never evaluated.
C8_MalformedGuessRejected ==
  (StringGuess /\ ~WellFormed(NormGuess)) =>
    /\ resp.reply.status = 400
    /\ "result" \notin DOMAIN resp.reply

\* a malformed guess for an unknown or not yet available puzzle: 400, not
\* 404 or 403
C8_Witness ==
  /\ StringGuess
  /\ resp.req.guess.v # <<>>
  /\ ~WellFormed(NormGuess)
  /\ Truthy(resp.req.puzzleId)
  /\ (ReqPuzzle = NoPuzzle \/ ReqFuture)
  /\ resp.reply.status = 400

\* C9: every POST /api/guess is answered 200, 400, 403, 404 or 422, whatever
\* the JSON types of puzzleId and guess; the handler never throws and no
\* response carries internal detail.
C9_DocumentedStatusOnly ==
  GuessAnswered =>
    /\ resp.reply.status \in {200, 400, 403, 404, 422}
    /\ "stack" \notin DOMAIN resp.reply

\* ------------------------------------------------------------------------
\* Properties of the catalog
\* ------------------------------------------------------------------------
\* the answer of a configuration value: the text before its first pipe,
\* upper-cased and trimmed (the whole value when it has no pipe)
EntryAnswer(value) ==
  LET pipe == indexOf(value, "|")
  IN trim(toUpperCase(IF pipe = 0 THEN value ELSE SubSeq(value, 1, pipe - 1)))

Stored(k) == IsPuzzleKey(k) /\ DateStr(k) \in DOMAIN PUZZLES

\* C10: every record stored in the catalog has an answer that is uppercase,
\* exactly 5 characters long and made only of [A-Z0-9-]; an entry whose
\* answer violates this is never stored.
C10_StoredAnswersValid ==
  booted =>
    /\ \A d \in DOMAIN PUZZLES :
         LET a == PUZZLES[d].answer
         IN /\ Len(a) = 5
            /\ \A i \in 1..Len(a) :
                 a[i] \in AnswerCharset /\ a[i] \notin Range(LowerLetters)
    /\ \A k \in DOMAIN env :
         Stored(k) =>
           /\ WellFormed(EntryAnswer(env[k]))
           /\ PUZZLES[DateStr(k)].answer = EntryAnswer(env[k])

\* one entry stored with its answer normalized, another of 5 characters
\* refused for its charset
C10_Witness ==
  /\ booted
  /\ \E k1, k2 \in DOMAIN env :
       /\ Stored(k1)
       /\ IsPuzzleKey(k2)
       /\ ~Stored(k2)
       /\ Len(EntryAnswer(env[k2])) = 5
       /\ ~WellFormed(EntryAnswer(env[k2]))

\* a configuration value that passes validation: it has the delimiter, and
\* its answer has 5 characters of [A-Z0-9-]
EntryValid(value) ==
  indexOf(value, "|") # 0 /\ WellFormed(EntryAnswer(value))

\* the date-keyed configuration entries that pass validation
ValidEntries == { k \in DOMAIN env : IsPuzzleKey(k) /\ EntryValid(env[k]) }

TotalsAnswered == resp.ep \in {"today", "list"}

\* C11: loading is never aborted by a malformed entry: the catalog holds
\* exactly the date-keyed entries that have the delimiter and a 5-character
\* answer of valid charset, whatever the other entries are, and totalPuzzles
\* (as counted and as reported by /api/today and /api/puzzles/list) is the
\* number of those entries.
C11_CatalogIsTheValidEntries ==
  booted =>
    /\ DOMAIN PUZZLES = { DateStr(k) : k \in ValidEntries }
    /\ \A k \in ValidEntries : PUZZLES[DateStr(k)].id = k
    /\ getTotalPuzzleCount = Cardinality(ValidEntries)
    /\ TotalsAnswered => resp.reply.totalPuzzles = Cardinality(ValidEntries)

\* a malformed entry sorted before a valid one: the valid one is loaded and
\* is the only one counted
C11_Witness ==
  /\ booted
  /\ resp.ep = "today"
  /\ resp.reply.totalPuzzles = 1
  /\ KeyA \in DOMAIN env
  /\ ~EntryValid(env[KeyA])
  /\ ValidEntries = {KeyB}
  /\ DOMAIN PUZZLES = {DateStr(KeyB)}

\* C12: an entry in the README's format, PUZZLE_001=ANSWER|Clue text with a
\* valid 5-character answer, is loaded into the catalog as a puzzle.
C12_DocumentedEntryLoaded ==
  (booted /\ Key001 \in DOMAIN env /\ EntryValid(env[Key001]))
    => \E d \in DOMAIN PUZZLES : PUZZLES[d].id = Key001

\* ------------------------------------------------------------------------
\* Properties of asset resolution
\* ------------------------------------------------------------------------
\* an asset key: <<"image", puzzle id>> or <<"sound", filename>>
AssetKeys ==
  { <<"image", id>> : id \in AssetIds }
    \cup { <<"sound", f>> : f \in SoundFilenames }

CacheOf(kind) == IF kind = "image" THEN imageCache ELSE soundCache

Memoized(key) == key[2] \in DOMAIN CacheOf(key[1])

NotFoundMemoized(key) ==
  Memoized(key) /\ CacheOf(key[1])[key[2]] = NullEntry

FoundMemoized(key) ==
  Memoized(key) /\ CacheOf(key[1])[key[2]] # NullEntry

TaskFor(task, key) ==
  task # Idle /\ task.kind = key[1] /\ task.id = key[2]

\* this step is a request for the key that goes on to the mirror
ResolutionStarts(key) ==
  \E n \in DOMAIN tasks : tasks[n] = Idle /\ TaskFor(tasks'[n], key)

\* this step issues a remote fetch for the key: a request's first one, or
\* the next candidate of a resolution already under way
FetchIssued(key) ==
  \E n \in DOMAIN tasks :
    /\ tasks'[n] # tasks[n]
    /\ TaskFor(tasks'[n], key)
    /\ tasks'[n].stage = "fetch"

\* the key of the request a response answers
AnsweredKey(r) ==
  IF r.ep = "image" THEN <<"image", r.req.puzzleId.v>>
                    ELSE <<"sound", r.req.filename>>

\* this step answers the key
Answers(key) ==
  /\ resp = NoResponse
  /\ resp' # NoResponse
  /\ resp'.ep \in {"image", "sound"}
  /\ AnsweredKey(resp') = key

\* this step is a request for the key answered at once, without an await
AnswersAtOnce(key) == Answers(key) /\ tasks' = tasks

AllBusy == \A n \in DOMAIN tasks : tasks[n] # Idle

\* C13: once a key has been resolved from the local store, no request
\* handled afterwards goes to the mirror for that key, whatever requests
\* follow and whatever happens to the local file: the key stays memoized, so
\* every later request for it is answered at once (a request either answers
\* at once or starts a resolution).
C13_NoFetchAfterLocalSuccess ==
  [][\A key \in resolvedLocally :
       /\ Memoized(key)
       /\ key[2] \in DOMAIN CacheOf(key[1])'
       /\ ~ResolutionStarts(key)]_vars

\* with the mirror configured, an image resolved locally whose file has
\* since been removed is served again (from the cache: a request answers
\* from the local store only while the file is there)
C13_Witness ==
  /\ mirrorConfigured
  /\ <<"image", KeyA>> \in resolvedLocally
  /\ LocalHits(KeyA) = {}
  /\ resp.ep = "image"
  /\ resp.req.puzzleId = JString(KeyA)
  /\ resp.reply.status = 200
  /\ resp.reply.buffer.source = "local"

\* C14 as stated: once NotFound is memoized for a key, no fetch is issued
\* for it again, by overlapping resolutions either, the entry stays NotFound
\* and every response for the key is 404.
C14_NothingAfterNotFound ==
  [][\A key \in AssetKeys :
       NotFoundMemoized(key) =>
         /\ ~FetchIssued(key)
         /\ CacheOf(key[1])'[key[2]] = NullEntry
         /\ Answers(key) => resp'.reply.status = 404]_vars

\* C14, amended: a request handled while NotFound is memoized for its key is
\* answered 404 at once from the cache, with no probe and no fetch, and
\* leaves the caches as they are (a resolution that was already awaiting the
\* mirror may still go on).
C14_LaterRequestsAnsweredFromNotFound ==
  [][\A key \in AssetKeys :
       NotFoundMemoized(key) =>
         /\ ~ResolutionStarts(key)
         /\ AnswersAtOnce(key) =>
              /\ resp'.reply.status = 404
              /\ assetVars' = assetVars]_vars

\* with the mirror configured and every handler slot awaiting the mirror, a
\* request for an image memoized as NotFound is answered 404 (so by the
\* request itself, from the cache) though the file is now in the local store
C14_Witness ==
  /\ mirrorConfigured
  /\ NotFoundMemoized(<<"image", KeyA>>)
  /\ LocalHits(KeyA) # {}
  /\ AllBusy
  /\ resp.ep = "image"
  /\ resp.req.puzzleId = JString(KeyA)
  /\ resp.reply.status = 404

\* C15: overlapping resolutions of one key write the same value: an entry
\* once written is never replaced by a different one, and a Found entry is
\* never overwritten by NotFound.
C15_WritesIdempotent ==
  [][\A key \in AssetKeys :
       Memoized(key) =>
         /\ CacheOf(key[1])'[key[2]] = CacheOf(key[1])[key[2]]
         /\ FoundMemoized(key) => CacheOf(key[1])'[key[2]] # NullEntry]_vars

\* C16: each remote attempt is bounded by a timeout that counts as a miss, so
\* a request that is awaiting the mirror eventually completes, whether or not
\* the mirror ever responds.
C16_AwaitingRequestCompletes ==
  \A n \in 1..MaxInflight : (tasks[n] # Idle) ~> (tasks[n] = Idle)

\* the candidates of a remote resolution: the four extensions of an image,
\* the one filename of a sound
Candidates(kind) == IF kind = "image" THEN Len(extensions) ELSE 1

\* the cache of a kind after the step
NextCacheOf(kind) == IF kind = "image" THEN imageCache' ELSE soundCache'

\* C17: a non-success response or a transport error of a remote attempt is a
\* miss of that candidate: a resolution that is awaiting the mirror only ever
\* moves on to the body of a successful response, or to the next candidate
\* without answering, or ends with 200 and the fetched file, or ends with 404
\* after its last candidate; no asset request is answered with a 5xx.
C17_RemoteFailureIsAMiss ==
  [][/\ \A n \in DOMAIN tasks :
          (tasks[n] # Idle /\ tasks'[n] # tasks[n]) =>
            LET t == tasks[n]
            IN \/ /\ t.stage = "fetch"
                  /\ tasks'[n] = [t EXCEPT !.stage = "body"]
                  /\ resp' = resp
               \/ /\ t.ext < Candidates(t.kind)
                  /\ tasks'[n] = [t EXCEPT !.ext = t.ext + 1, !.stage = "fetch"]
                  /\ resp' = resp
               \/ /\ tasks'[n] = Idle
                  /\ resp'.ep = t.kind
                  /\ AnsweredKey(resp') = <<t.kind, t.id>>
                  /\ \/ /\ resp'.reply.status = 200
                        /\ t.stage = "body"
                        /\ resp'.reply.buffer.source = "mirror"
                        /\ t.id \in DOMAIN NextCacheOf(t.kind)
                        /\ NextCacheOf(t.kind)[t.id] =
                             [buffer      |-> resp'.reply.buffer,
                              contentType |-> resp'.reply.contentType]
                     \/ /\ resp'.reply.status = 404
                        /\ t.ext = Candidates(t.kind)
                        /\ t.id \in DOMAIN NextCacheOf(t.kind)
                        /\ NextCacheOf(t.kind)[t.id] = NullEntry
     /\ (resp' # NoResponse /\ resp'.ep \in {"image", "sound"}) =>
          resp'.reply.status \in {200, 400, 403, 404}]_vars

\* an image served from the mirror's third candidate, gif, after the png and
\* jpg attempts missed
C17_Witness ==
  /\ resp.ep = "image"
  /\ resp.reply.status = 200
  /\ resp.reply.buffer.source = "mirror"
  /\ resp.reply.buffer.ext = "gif"
  /\ resp.reply.contentType = "image/gif"

\* the safe pattern, spelled out: one or more word characters or hyphens, a
\* dot, then mp3, wav or ogg in either case, and nothing else
MatchesSoundPattern(f) ==
  \E d \in 2..Len(f) :
    /\ f[d] = "."
    /\ Len(f) = d + 3
    /\ \A i \in 1..(d - 1) : f[i] \in WordChars \cup {"-"}
    /\ \E e \in {MP3, WAV, OGG} :
         \A i \in 1..3 : f[d + i] \in {e[i], ToUpperChar(e[i])}

\* C19: a sound filename that does not match the safe pattern is answered
\* 400 before resolution: the answer carries no file, no resolution starts
\* and neither cache changes; every key the sound cache ever holds, and every
\* filename a suspended sound handler is fetching, matches the pattern.
C19_UnsafeFilenameRejected ==
  /\ [](\A f \in DOMAIN soundCache : MatchesSoundPattern(f))
  /\ [](\A n \in 1..MaxInflight :
          (tasks[n] # Idle /\ tasks[n].kind = "sound")
            => MatchesSoundPattern(tasks[n].id))
  /\ [][\A f \in SoundFilenames :
          (Answers(<<"sound", f>>) /\ ~MatchesSoundPattern(f)) =>
            /\ resp'.reply.status = 400
            /\ "buffer" \notin DOMAIN resp'.reply
            /\ assetVars' = assetVars]_vars

\* a filename with a path in it, naming a file that exists in the local
\* store, is answered 400 while the cache already holds a sound
C19_Witness ==
  /\ resp.ep = "sound"
  /\ resp.req.filename \in localSounds
  /\ indexOf(resp.req.filename, "/") # 0
  /\ resp.reply.status = 400
  /\ soundCache # <<>>

\* ------------------------------------------------------------------------
\* Properties of GET /api/today
\* ------------------------------------------------------------------------
\* the place of a date in the calendar
DayOf(date) == CHOOSE i \in DOMAIN CalendarDays : DateStr(CalendarDays[i]) = date

\* the catalog dates on or before the date
OnOrBefore(date) == { d \in DOMAIN PUZZLES : DayOf(d) <= DayOf(date) }

\* the greatest catalog date on or before the date
MostRecent(date) ==
  CHOOSE d \in OnOrBefore(date) : \A e \in OnOrBefore(date) : DayOf(e) <= DayOf(d)

\* the reply is the one due on the date
TodayReplyDueOn(reply, date) ==
  IF OnOrBefore(date) = {}
    THEN ~reply.active /\ reply.totalAvailable = 0
    ELSE /\ reply.active
         /\ reply.date = MostRecent(date)
         /\ reply.puzzleId = PUZZLES[MostRecent(date)].id
         /\ reply.clue = PUZZLES[MostRecent(date)].clue

\* C20: GET /api/today returns active:true with the catalog puzzle of the
\* greatest catalog date on or before the current Eastern date, and
\* active:false with totalAvailable 0 exactly when there is no such date; the
\* current date is the one the handler read (when midnight passes while the
\* handler runs: one of the dates it read).
C20_TodayIsMostRecentAvailable ==
  resp.ep = "today" =>
    /\ \E i \in 1..2 : TodayReplyDueOn(resp.reply, resp.req.reads[i])
    /\ resp.req.reads[1] = resp.req.reads[2] =>
         /\ TodayReplyDueOn(resp.reply, resp.at)
         /\ resp.reply.active <=> OnOrBefore(resp.at) # {}

\* no puzzle is dated today: the most recent earlier one is returned, while
\* a later one exists
C20_Witness ==
  /\ resp.ep = "today"
  /\ resp.req.reads[1] = resp.req.reads[3]
  /\ resp.reply.active
  /\ resp.at \notin DOMAIN PUZZLES
  /\ resp.reply.date = DateStr(KeyA)
  /\ DateStr(KeyC) \in DOMAIN PUZZLES
  /\ DayOf(resp.at) < DayOf(DateStr(KeyC))

\* ------------------------------------------------------------------------
\* Properties of the static blocks
\* ------------------------------------------------------------------------
\* a file of the raw answer-image directory or of the raw sound directory
RawMedia(file) ==
  \/ Len(file) >= 2 /\ file[1] = ImagesDir /\ file[2] = AnswersDir
  \/ Len(file) >= 1 /\ file[1] = SoundsDir

\* C18: every request whose path is under /images/answers or /sounds is
\* answered 403, and no request outside the API routes is ever answered
\* with a file of the raw answer-image or sound directory.
C18_RawMediaNeverServed ==
  resp.ep = "get" =>
    /\ (\/ MountMatches(ImagesAnswersMount, resp.req.pathname)
        \/ MountMatches(SoundsMount, resp.req.pathname))
         => resp.reply.status = 403
    /\ "file" \in DOMAIN resp.reply => ~RawMedia(resp.reply.file)

\* ------------------------------------------------------------------------
\* Properties of the puzzle numbers
\* ------------------------------------------------------------------------
\* the 1-based rank of a catalog date among all catalog dates
RankOf(date) == Cardinality({ e \in DOMAIN PUZZLES : DayOf(e) <= DayOf(date) })

\* the dates of the calendar, as YYYY-MM-DD
CalendarDates == { DateStr(CalendarDays[i]) : i \in DOMAIN CalendarDays }

\* C21: the puzzle number of a date is its 1-based rank among all catalog
\* dates, future ones included, and 0 for a date not in the catalog; every
\* number reported by /api/today and /api/puzzle/:id is that rank, and the
\* puzzles of /api/puzzles/list are numbered 1..n in ascending date order, n
\* being the number of puzzles available on the date the handler read.
C21_PuzzleNumberIsRank ==
  booted =>
    /\ \A date \in CalendarDates :
         getPuzzleNumberForDate(date) =
           IF date \in DOMAIN PUZZLES THEN RankOf(date) ELSE 0
    /\ (resp.ep \in {"today", "puzzle"} /\ "puzzleNumber" \in DOMAIN resp.reply) =>
         resp.reply.puzzleNumber = RankOf(resp.reply.date)
    /\ resp.ep = "list" =>
         LET list == resp.reply.puzzles
         IN /\ Len(list) = Cardinality(OnOrBefore(resp.req.reads[1]))
            /\ \A i \in DOMAIN list :
                 /\ list[i].puzzleNumber = i
                 /\ list[i].date \in OnOrBefore(resp.req.reads[1])
                 /\ \A j \in DOMAIN list :
                      i < j => DayOf(list[i].date) < DayOf(list[j].date)

\* two puzzles are listed while a third, dated later, is in the catalog
C21_Witness ==
  /\ resp.ep = "list"
  /\ Len(resp.reply.puzzles) = 2
  /\ resp.reply.puzzles[2].puzzleNumber = 2
  /\ Cardinality(DOMAIN PUZZLES) = 3
  /\ getPuzzleNumberForDate(DateStr(KeyC)) = 3
  /\ getPuzzleNumberForDate(DateStr(CalendarDays[1])) = 0

\* ------------------------------------------------------------------------
\* Properties of getNextMidnightEasternUTC
\* ------------------------------------------------------------------------
\* the Eastern calendar day of an instant, counted from the window's start
EasternDay(t) ==
  (t + (IF t < Transition(season) THEN OffsetBefore(season)
                                  ELSE OffsetAfter(season))) \div Day

\* C22: the instant returned by getNextMidnightEasternUTC is the first
\* instant after the call at which the Eastern calendar date is later than
\* at the call.
C22_NextMidnightIsFirstInstantOfNextDay ==
  nextMidnight # NoInstant =>
    /\ nextMidnight > now
    /\ EasternDay(nextMidnight) > EasternDay(now)
    /\ EasternDay(nextMidnight - 1) = EasternDay(now)

\* ------------------------------------------------------------------------
\* Properties of the availability of a puzzle over the days
\* ------------------------------------------------------------------------
\* the step answers a request of a gated endpoint for the puzzle id
AnswersGated(ep, id) ==
  /\ resp = NoResponse
  /\ resp' # NoResponse
  /\ resp'.ep = ep
  /\ resp'.req.puzzleId = JString(id)

\* C23: the date is read from the clock by every request: a request for a
\* catalog puzzle dated d is answered 403 only while the Eastern date is
\* before d; once the date is d or later, /api/puzzle serves it (200) and
\* neither /api/guess nor /api/answer-image answers 403, on every request;
\* the clock never goes back, so this never reverts.
C23_AvailabilityFollowsTheClock ==
  [][/\ clock' >= clock
     /\ \A id \in PathIds :
          DateStr(id) \in DOMAIN PUZZLES =>
            LET due == DayOf(DateStr(id)) <= clock
            IN /\ AnswersGated("puzzle", id) =>
                    resp'.reply.status = (IF due THEN 200 ELSE 403)
               /\ AnswersGated("image", id) =>
                    (resp'.reply.status = 403 <=> ~due)
               /\ AnswersGated("guess", id) =>
                    /\ resp'.reply.status = 403 => ~due
                    /\ resp'.reply.status = 200 => due]_vars

\* the puzzle of the last day is served on the last day by a process that
\* was started three days before it
C23_Witness ==
  /\ resp.ep = "puzzle"
  /\ resp.req.puzzleId = JString(KeyC)
  /\ resp.reply.status = 200
  /\ clock = DayOf(DateStr(KeyC))
  /\ clock > 1

\* ------------------------------------------------------------------------
\* Properties of guesses among other requests
\* ------------------------------------------------------------------------
\* the guess request that `resp` answers, with the date of its evaluation
GuessKey == <<resp.req.puzzleId, resp.req.guess, resp.at>>

C25_AtMostSixGuesses ==
  /\ [](Len(pStateGuesses) <= 6)
  /\ [][(pStateStatus \in {"won", "lost"}) => pStateGuesses' = pStateGuesses]_vars

\* ------------------------------------------------------------------------
\* Properties of the meaning of the marks
\* ------------------------------------------------------------------------
\* the letter of the guess at position i occurs in the answer
InAnswer(i) == \E j \in 1..5 : evalAnswer[j] = evalGuess[i]

\* the positions of the guess that hold the letter c and are marked correct
\* or present
HitsOf(c) == { k \in 1..5 : evalGuess[k] = c /\ Hit(k) }

TextFields == {"puzzleId", "clue", "date", "altWinSound", "altLoseSound"}

\* the text holds the word somewhere
Contains(text, word) ==
  \E k \in 1..(Len(text) - Len(word) + 1) :
    SubSeq(text, k, k + Len(word) - 1) = word

\* the record has no answer and no evaluation, and none of its text fields
\* holds the answer of a catalog puzzle
NoAnswerIn(rec) ==
  /\ DOMAIN rec \cap {"answer", "result", "correct"} = {}
  /\ \A f \in DOMAIN rec \cap TextFields :
       \A d \in DOMAIN PUZZLES : ~Contains(rec[f], PUZZLES[d].answer)

\* C27: the responses of GET /api/today, GET /api/puzzle/:id and
\* GET /api/puzzles/list hold the answer of no puzzle, and the list holds no
\* puzzle dated after the Eastern date of the request.
C27_MetadataHoldsNoAnswer ==
  /\ resp.ep \in {"today", "puzzle"} => NoAnswerIn(resp.reply)
  /\ resp.ep = "list" =>
       /\ NoAnswerIn(resp.reply)
       /\ \A i \in DOMAIN resp.reply.puzzles :
            /\ NoAnswerIn(resp.reply.puzzles[i])
            /\ DayOf(resp.reply.puzzles[i].date) <= DayOf(resp.at)

\* two puzzles are listed while the catalog has a third, dated later
C27_Witness ==
  /\ resp.ep = "list"
  /\ Len(resp.reply.puzzles) = 2
  /\ Cardinality(DOMAIN PUZZLES) = 3
  /\ \E d \in DOMAIN PUZZLES : DayOf(d) > DayOf(resp.at)

\* ------------------------------------------------------------------------
\* Properties of the order of the image candidates
\* ------------------------------------------------------------------------
\* the place of an extension in the order png, jpg, gif, webp
PlaceOf(ext) ==
  CASE ext = "png" -> 1 [] ext = "jpg" -> 2 [] ext = "gif" -> 3 [] ext = "webp" -> 4

\* the content type that goes with an extension
TypeOf(ext) ==
  CASE ext = "png" -> "image/png" [] ext = "jpg" -> "image/jpeg"
    [] ext = "gif" -> "image/gif" [] ext = "webp" -> "image/webp"

\* the extensions of the files the local store holds for the id
LocalExts(id) == { ext \in {"png", "jpg", "gif", "webp"} : <<id, ext>> \in localImages }

\* C28: an image not yet memoized is served from the local store with the
\* first of png, jpg, gif, webp that is there; a resolution goes to the
\* mirror only when the local store holds none of the four, and starts with
\* png; a resolution has one fetch under way and moves from a candidate to
\* the next in the order only; a resolution that ends with the file ends
\* with the candidate it was fetching; and every image served carries the
\* content type of its extension, as does the entry cached for it.
C28_CandidatesInOrder ==
  [][/\ \A id \in AssetIds :
          /\ (AnswersAtOnce(<<"image", id>>) /\ ~Memoized(<<"image", id>>)
                /\ resp'.reply.status = 200) =>
               /\ resp'.reply.buffer.source = "local"
               /\ resp'.reply.buffer.ext \in LocalExts(id)
               /\ \A ext \in LocalExts(id) :
                    PlaceOf(resp'.reply.buffer.ext) <= PlaceOf(ext)
          /\ ResolutionStarts(<<"image", id>>) =>
               /\ LocalExts(id) = {}
               /\ \A n \in DOMAIN tasks :
                    (tasks[n] = Idle /\ tasks'[n] # Idle) =>
                      /\ extensions[tasks'[n].ext] = "png"
                      /\ tasks'[n].stage = "fetch"
     /\ \A n \in DOMAIN tasks :
          (tasks[n] # Idle /\ tasks[n].kind = "image" /\ tasks'[n] # tasks[n]) =>
            \/ /\ tasks'[n] # Idle
               /\ tasks'[n].id = tasks[n].id
               /\ \/ /\ tasks[n].stage = "fetch"
                     /\ tasks'[n].stage = "body"
                     /\ tasks'[n].ext = tasks[n].ext
                  \/ /\ tasks'[n].stage = "fetch"
                     /\ PlaceOf(extensions[tasks'[n].ext]) =
                          PlaceOf(extensions[tasks[n].ext]) + 1
            \/ /\ tasks'[n] = Idle
               /\ resp'.reply.status = 200 =>
                    /\ resp'.reply.buffer.source = "mirror"
                    /\ resp'.reply.buffer.ext = extensions[tasks[n].ext]
                    /\ <<tasks[n].id, resp'.reply.buffer.ext>> \in mirror.images
               /\ resp'.reply.status # 200 =>
                    extensions[tasks[n].ext] = "webp"
     /\ (resp' # resp /\ resp'.ep = "image" /\ resp'.reply.status = 200) =>
          /\ resp'.reply.contentType = TypeOf(resp'.reply.buffer.ext)
          /\ imageCache'[resp'.req.puzzleId.v] =
               [buffer |-> resp'.reply.buffer,
                contentType |-> TypeOf(resp'.reply.buffer.ext)]]_vars

\* with jpg and webp both in the local store, the image is served as jpg
C28_Witness ==
  /\ resp.ep = "image"
  /\ resp.reply.status = 200
  /\ resp.reply.buffer.source = "local"
  /\ resp.reply.buffer.ext = "jpg"
  /\ resp.reply.contentType = "image/jpeg"
  /\ LocalExts(resp.req.puzzleId.v) = {"jpg", "webp"}

\* ------------------------------------------------------------------------
\* Properties of the asset routes without a content mirror
\* ------------------------------------------------------------------------
\* the key names an asset whose request reaches the resolution: the image of
\* a catalog puzzle that is available, or a sound with a safe filename
Resolvable(key) ==
  IF key[1] = "image"
    THEN /\ DateStr(key[2]) \in DOMAIN PUZZLES
         /\ DayOf(DateStr(key[2])) <= clock
    ELSE MatchesSoundPattern(key[2])

\* the local store has no file for the key that the handler may use
MissesLocally(key) ==
  IF key[1] = "image"
    THEN LocalExts(key[2]) = {}
    ELSE skipLocalSounds \/ key[2] \notin localSounds

\* C29: without the mirror settings no handler ever awaits a fetch, and a
\* request for a key not yet memoized that misses locally (any sound when
\* SKIP_LOCAL_SOUNDS is set) is answered 404 at once and memoized as
\* NotFound; with SKIP_LOCAL_SOUNDS set no sound is ever served from, or
\* cached from, the local store.
C29_NoMirrorNoFetch ==
  [][/\ ~mirrorConfigured =>
          /\ \A n \in DOMAIN tasks : tasks[n] = Idle /\ tasks'[n] = Idle
          /\ \A key \in AssetKeys :
               (Answers(key) /\ Resolvable(key) /\ ~Memoized(key)
                  /\ MissesLocally(key)) =>
                 /\ resp'.reply.status = 404
                 /\ key[2] \in DOMAIN NextCacheOf(key[1])
                 /\ NextCacheOf(key[1])[key[2]] = NullEntry
     /\ skipLocalSounds =>
          /\ (resp' # NoResponse /\ resp'.ep = "sound" /\ resp'.reply.status = 200)
               => resp'.reply.buffer.source # "local"
          /\ \A f \in DOMAIN soundCache' :
               soundCache'[f] # NullEntry => soundCache'[f].buffer.source # "local"]_vars

\* without the mirror settings and with SKIP_LOCAL_SOUNDS set, a sound whose
\* file is in the local store is answered 404 and memoized as NotFound
C29_Witness ==
  /\ ~mirrorConfigured
  /\ skipLocalSounds
  /\ resp.ep = "sound"
  /\ resp.req.filename = WinMp3
  /\ WinMp3 \in localSounds
  /\ resp.reply.status = 404
  /\ NotFoundMemoized(<<"sound", WinMp3>>)

\* ------------------------------------------------------------------------
\* the positions of a character in a text, and the first of them after a
\* position (one past the end of the text when there is none)
PositionsOf(v, ch) == { i \in 1..Len(v) : v[i] = ch }

FirstAfter(v, ch, from) ==
  LET later == { i \in PositionsOf(v, ch) : i > from }
  IN IF later = {} THEN Len(v) + 1
     ELSE CHOOSE i \in later : \A j \in later : i <= j

\* the trimmed text strictly between two positions of a value
FieldBetween(v, lo, hi) == trim(SubSeq(v, lo + 1, hi - 1))

\* a sound field: absent or empty reads as null
SoundField(text) == IF text = <<>> THEN NullStr ELSE text

AvailableAt(t) == { d \in DOMAIN PUZZLES : DayOf(d) <= DayOf(t.endOf) + 1 }

\* the response on the wire carries a next-puzzle time
CarriesNextPuzzleTime ==
  resp.ep \in {"today", "list"} /\ resp.reply.nextPuzzleTime # NullTime

\* C31: a non-null nextPuzzleTime of GET /api/today or GET /api/puzzles/list
\* is the release of the next puzzle: some catalog puzzle that was not
\* available when the response was produced is available at that instant.
C31_NextPuzzleTimeIsARelease ==
  CarriesNextPuzzleTime =>
    \E d \in AvailableAt(resp.reply.nextPuzzleTime) :
      DayOf(d) > DayOf(resp.req.reads[3])

\* ------------------------------------------------------------------------
\* Properties of the server's state
\* ------------------------------------------------------------------------
\* the routes that read the catalog and resolve no asset
CatalogRoutes == {"guess", "puzzle", "today", "list", "reveal"}

\* C32: once the server is started no step changes the puzzle catalog, the
\* accepted-word set or the configuration: of the state the server keeps,
\* only the image cache and the sound cache change; and a step that answers
\* a guess, puzzle, today, list or reveal request leaves both caches as
\* they were.
C32_OnlyTheCachesChange ==
  [][booted =>
       /\ booted'
       /\ PUZZLES' = PUZZLES
       /\ VALID_WORDS' = VALID_WORDS
       /\ env' = env
       /\ dictFile' = dictFile
       /\ (resp = NoResponse /\ resp'.ep \in CatalogRoutes) =>
            (imageCache' = imageCache /\ soundCache' = soundCache)]_vars

\* both caches hold entries written by asset requests, the clock has moved
\* on, and a puzzle request has just been answered from the catalog
C32_Witness ==
  /\ resp.ep = "puzzle"
  /\ resp.reply.status = 200
  /\ DOMAIN imageCache # {}
  /\ DOMAIN soundCache # {}
  /\ clock > 3

\* ------------------------------------------------------------------------
\* Properties of the accepted-word set
\* ------------------------------------------------------------------------
\* the answered guess request names an available puzzle and its guess is a
\* string that is, once normalized, the answer of that puzzle
OwnAnswerGuessed ==
  /\ StringGuess
  /\ ReqAvailable
  /\ NormGuess = ReqPuzzle.answer

\* C33: every available puzzle is solvable: for a catalog puzzle dated on or
\* before the current date, its own answer submitted as the guess is answered
\* 200 with correct = true and five correct marks, never 400 or 422, whether
\* or not the answer is a word of the dictionary file and whether or not it
\* holds digits or hyphens.
C33_OwnAnswerAccepted ==
  OwnAnswerGuessed =>
    /\ resp.reply.status = 200
    /\ resp.reply.correct
    /\ AllMarksCorrect(resp.reply.result)

\* R2-D2, which the dictionary file lists and the loader does not keep (it
\* is not made of letters only), guessed against its own puzzle on the day
\* it is released
C33_Witness ==
  /\ OwnAnswerGuessed
  /\ ReqPuzzle.answer = R2D2
  /\ resp.at = ReqPuzzle.date
  /\ dictFile.exists
  /\ R2D2 \notin DictionaryWords(dictFile.lines)
  /\ resp.reply.status = 200

\* ------------------------------------------------------------------------
\* Properties of guesses against two catalogs
\* ------------------------------------------------------------------------
\* the configuration entries of the puzzles the two catalogs may differ in
\* are all dated after the date at which the answered request was handled
TwinsStillFuture ==
  \A k \in DOMAIN env :
    env[k] \in TwinValues => StrLess(resp.at, DateStr(k))

\* C34: responses about available puzzles leak nothing about future answers:
\* with two catalogs that differ only in the answer of a puzzle dated after
\* the current date, a guess request against an available puzzle is answered
\* with the same status and body under both (the log keeps the reply the
\* request got first, under either catalog).
C34_FutureAnswerChangesNothing ==
  (guessLog.on /\ GuessAnswered /\ ReqAvailable /\ TwinsStillFuture) =>
    /\ GuessKey \in DOMAIN guessLog.seen
    /\ resp.reply = guessLog.seen[GuessKey].reply

\* ------------------------------------------------------------------------
\* Properties of the gate in front of the image cache
\* ------------------------------------------------------------------------
\* the id is the id of a catalog puzzle dated on or before the date
AvailableId(id, date) ==
  \E d \in DOMAIN PUZZLES : PUZZLES[d].id = id /\ DayOf(d) <= DayOf(date)

\* the id is the id of a catalog puzzle
CatalogId(id) == \E d \in DOMAIN PUZZLES : PUZZLES[d].id = id

\* C35: the availability gate precedes the image cache: an image request
\* for an unknown id is answered 404 and one for a catalog puzzle dated after
\* the current date 403, and that step starts no resolution (no probe hit, no
\* suspended fetch) and leaves the image cache as it was; every entry is
\* written into the image cache under the id of a catalog puzzle available
\* at that moment, so every key the cache holds is such an id.
C35_GateBeforeImageCache ==
  /\ [](\A id \in DOMAIN imageCache : AvailableId(id, getEasternDateString))
  /\ [][(resp = NoResponse /\ resp'.ep = "image") =>
          LET id == resp'.req.puzzleId.v
          IN /\ ~CatalogId(id) =>
                  (resp'.reply.status = 404 /\ UNCHANGED assetVars)
             /\ (CatalogId(id) /\ ~AvailableId(id, resp'.at)) =>
                  (resp'.reply.status = 403 /\ UNCHANGED assetVars)]_vars
  /\ [][\A id \in DOMAIN imageCache' :
          (id \notin DOMAIN imageCache \/ imageCache'[id] # imageCache[id])
            => AvailableId(id, getEasternDateString)]_vars

\* the image of a puzzle dated tomorrow is refused with 403 while the cache
\* holds the entry of an available puzzle and the local store holds the
\* image of the refused one
C35_Witness ==
  /\ resp.ep = "image"
  /\ resp.req.puzzleId = JString(KeyC)
  /\ resp.reply.status = 403
  /\ <<KeyC, "png">> \in localImages
  /\ KeyA \in DOMAIN imageCache
  /\ KeyC \notin DOMAIN imageCache

\* ------------------------------------------------------------------------
\* Properties of the totals
\* ------------------------------------------------------------------------
\* the response on the wire is an active /api/today or a /api/puzzles/list
TotalsCarried ==
  \/ resp.ep = "today" /\ resp.reply.active
  \/ resp.ep = "list"

\* the number of available puzzles the response states
StatedAvailable ==
  IF resp.ep = "today" THEN resp.reply.totalAvailable ELSE Len(resp.reply.puzzles)

\* the totals of the response are those of the date
TotalsDueOn(date) ==
  /\ resp.reply.hasMorePuzzles <=>
       (\E d \in DOMAIN PUZZLES : DayOf(d) > DayOf(date))
  /\ resp.reply.hasMorePuzzles <=> (StatedAvailable < resp.reply.totalPuzzles)
  /\ (resp.reply.nextPuzzleTime = NullTime) <=> ~resp.reply.hasMorePuzzles
  /\ StatedAvailable = Cardinality(OnOrBefore(date))

\* C36: in every active /api/today response and every /api/puzzles/list
\* response hasMorePuzzles is true exactly when a catalog puzzle is dated
\* after the current date, which is exactly when the available puzzles are
\* fewer than all; nextPuzzleTime is null exactly when hasMorePuzzles is
\* false; and the number of available puzzles is the number of catalog
\* puzzles dated on or before that date (the length of the list for it). The
\* current date is a date the handler read.
C36_TotalsAgree ==
  TotalsCarried => \E i \in 1..3 : TotalsDueOn(resp.req.reads[i])

\* ------------------------------------------------------------------------
\* Properties of the client switching puzzles
\* ------------------------------------------------------------------------
\* C37: every guess recorded in a puzzle's saved state was submitted for
\* that puzzle and evaluated against it: the request whose response recorded
\* it named that puzzle, and its marks are those of the guess sent against
\* that puzzle's answer.
C37_GuessesBelongToTheirPuzzle ==
  \A puzzleId \in DOMAIN gameState :
    \A n \in DOMAIN gameState[puzzleId].guesses :
      /\ n \in DOMAIN SentFor(sentLog, puzzleId)
      /\ sentLog[puzzleId][n].puzzleId = puzzleId
      /\ gameState[puzzleId].guesses[n].result =
           checkGuess(sentLog[puzzleId][n].guess, ClientAnswers[puzzleId])

\* C38: whenever no row reveal is in progress, gameOver is true exactly when
\* the saved status of the displayed puzzle is won or lost, and currentRow is
\* the number of guesses recorded for that puzzle.
C38_BoardAgreesWithSavedState ==
  ~isRevealing =>
    /\ gameOver <=> (pStateStatus \in {"won", "lost"})
    /\ currentRow = Len(pStateGuesses)

\* ------------------------------------------------------------------------
\* Properties of the state saved in localStorage
\* ------------------------------------------------------------------------
\* a saved puzzle state that a reload shows as a board with a free row: fewer
\* than MAX_GUESSES guesses, none of them with all marks correct
Playable(pState) ==
  /\ Len(pState.guesses) < MAX_GUESSES
  /\ \A n \in DOMAIN pState.guesses : ~AllMarksCorrect(pState.guesses[n].result)

\* the saved puzzle state of a game whose last guess ended it
Finished(pState) ==
  /\ pState.status = "in-progress"
  /\ pState.guesses # <<>>
  /\ \/ Len(pState.guesses) >= MAX_GUESSES
     \/ AllMarksCorrect(pState.guesses[Len(pState.guesses)].result)

\* C39: in every state written to localStorage, a puzzle whose status is
\* in-progress has fewer than 6 recorded guesses and no recorded guess whose
\* marks are all correct.
C39_SavedInProgressIsPlayable ==
  \A puzzleId \in DOMAIN localStorage :
    localStorage[puzzleId].status = "in-progress" => Playable(localStorage[puzzleId])

====
